---------------------------- MODULE Spec2Model ----------------------------
(***************************************************************************)
(* A model of the llm-reverse-proxy crate: the incremental SSE codec       *)
(* (sse.rs), and the reverse proxy's connection slot and request/response  *)
(* conversion (openai/proxy.rs).                                           *)
(*                                                                         *)
(* Text is modelled at the byte level: a string is a sequence of byte      *)
(* values, an Option<T> is the empty sequence (None) or a one-element      *)
(* sequence (Some).                                                        *)
(***************************************************************************)
EXTENDS Integers, Sequences, FiniteSets, TLC

VARIABLES
    stream,     \* SSE: the bytes the backend sends on one response body
    pos,        \* SSE: how many bytes of stream have been fed to the reader
    reader,     \* SSE: the EventReader between calls: [event, suffix]
    emitted,    \* SSE: every Event yielded so far, in order
    failed,     \* SSE: next_events returned a decode error
    splitChar,  \* SSE: some call so far ended inside a multi-byte character
    rtStage,    \* round trip: "start", "written", "parsed", "rewritten"
    rtEvent,    \* round trip: the Event e that is serialized
    rtWire,     \* round trip: write_to(e)
    rtParsed,   \* round trip: the Events parsed from rtWire
    rtWire2,    \* round trip: the parsed Events serialized again
    cfg,        \* proxy: the ReverseProxy's configuration, fixed at construction
    connection, \* proxy: the slot Mutex<Option<Connection>> (None or Some(id))
    lock,       \* proxy: the request holding the slot's lock (None or Some(r))
    conns,      \* proxy: the transports established so far, numbered 1..conns
    finished,   \* proxy: the connections whose driver task has finished
    calls,      \* proxy: per request, where its call stands and what it holds
    evIn,       \* streaming: the Events the reader dispatches for the frame
    evOut,      \* streaming: what the closure made of the frame
    itText,     \* iterator: the text an EventIterator was made over
    itData,     \* iterator: EventIterator.data, the text not yet consumed
    itEvent,    \* iterator: EventIterator.event, the Event being accumulated
    itOut,      \* iterator: the Events next() has returned, in order
    itLine,     \* iterator: the line the last pass of the loop consumed
    tnRes,      \* tunnel: the bytes the forward proxy answers CONNECT with
    tnPos,      \* tunnel: how many of them the handshake has read
    tnLf,       \* tunnel: lf_count
    tnState,    \* tunnel: "reading", "checking", "ok", or the error it ended in
    svInst,     \* serve: per accepted client connection, its ReverseProxy
    svSlot,     \* serve: per ReverseProxy, its slot (None or Some(transport))
    svOwner,    \* serve: per transport, the ReverseProxy that established it
    svOpen,     \* serve: the transports whose driver has not finished
    cnUrl,      \* connect: the backend URL of the ReverseProxy
    cnProxy,    \* connect: its forward-proxy URL (None or Some(url))
    cnPc,       \* connect: where the connect of a send stands
    cnTrace,    \* connect: what has been opened and written so far, in order
    bdBodies,   \* body: the bodies of the streamed responses, each a sequence of frames
    bdCur,      \* body: the response being streamed (0: none yet)
    bdPos,      \* body: how many frames of it the closure has taken
    bdReader,   \* body: the event_reader the closure of that response owns
    bdOut,      \* body: per response, what the closure returned for each frame
    bdEnd,      \* body: per response, "open", "end" or "error"
    roRouter,   \* the Router handling the connection: [routes, default]
    roLog,      \* per request routed so far: [path, to, status]
    sdSlot,     \* the connection in the slot of the ReverseProxy: "none", "alive" or "finished"
    sdLock,     \* the request holding the guard of the slot, if any
    sdCalls,    \* per request: [pc, cur, connects, result] of its call of send
    hoHead,     \* how many bytes of the stream are the forward proxy's answer
    hoUnread,   \* what is left in the stream when it is handed to connect_raw_socket
    ptReader,   \* the EventReader of a caller that drops iterators before their end
    ptEmitted,  \* the Events that caller has been given
    ptShort     \* an iterator was dropped while it still had an Event to give

sseVars == <<stream, pos, reader, emitted, failed, splitChar>>
rtVars == <<rtStage, rtEvent, rtWire, rtParsed, rtWire2>>
pxVars == <<cfg, connection, lock, conns, finished, calls>>
stVars == <<evIn, evOut>>
itVars == <<itText, itData, itEvent, itOut, itLine>>
tnVars == <<tnRes, tnPos, tnLf, tnState>>
svVars == <<svInst, svSlot, svOwner, svOpen>>
cnVars == <<cnUrl, cnProxy, cnPc, cnTrace>>
bdVars == <<bdBodies, bdCur, bdPos, bdReader, bdOut, bdEnd>>
roVars == <<roRouter, roLog>>
sdVars == <<sdSlot, sdLock, sdCalls>>
hoVars == <<hoHead, hoUnread>>
ptVars == <<ptReader, ptEmitted, ptShort>>
vars == <<sseVars, rtVars, pxVars, stVars, itVars, tnVars, svVars, cnVars, bdVars, roVars, sdVars, hoVars, ptVars>>

\* What the steps of each part leave alone.
notSse == <<rtVars, pxVars, stVars, itVars, tnVars, svVars, cnVars, bdVars, roVars, sdVars, hoVars, ptVars>>
notRt == <<sseVars, pxVars, stVars, itVars, tnVars, svVars, cnVars, bdVars, roVars, sdVars, hoVars, ptVars>>
notPx == <<sseVars, rtVars, stVars, itVars, tnVars, svVars, cnVars, bdVars, roVars, sdVars, hoVars, ptVars>>
notSt == <<sseVars, rtVars, pxVars, itVars, tnVars, svVars, cnVars, bdVars, roVars, sdVars, hoVars, ptVars>>
notIt == <<sseVars, rtVars, pxVars, stVars, tnVars, svVars, cnVars, bdVars, roVars, sdVars, hoVars, ptVars>>
notTn == <<sseVars, rtVars, pxVars, stVars, itVars, svVars, cnVars, bdVars, roVars, sdVars, hoVars, ptVars>>
notSv == <<sseVars, rtVars, pxVars, stVars, itVars, tnVars, cnVars, bdVars, roVars, sdVars, hoVars, ptVars>>
notCn == <<sseVars, rtVars, pxVars, stVars, itVars, tnVars, svVars, bdVars, roVars, sdVars, hoVars, ptVars>>
notBd == <<sseVars, rtVars, pxVars, stVars, itVars, tnVars, svVars, cnVars, roVars, sdVars, hoVars, ptVars>>
notRo == <<sseVars, rtVars, pxVars, stVars, itVars, tnVars, svVars, cnVars, bdVars, sdVars, hoVars, ptVars>>
notSd == <<sseVars, rtVars, pxVars, stVars, itVars, tnVars, svVars, cnVars, bdVars, roVars, hoVars, ptVars>>
notHo == <<sseVars, rtVars, pxVars, stVars, itVars, tnVars, svVars, cnVars, bdVars, roVars, sdVars, ptVars>>
notPt == <<sseVars, rtVars, pxVars, stVars, itVars, tnVars, svVars, cnVars, bdVars, roVars, sdVars, hoVars>>

-----------------------------------------------------------------------------
(* Bytes and literals of sse.rs *)

LF == 10
CR == 13
SP == 32
COLON == 58

StrEvent == <<101, 118, 101, 110, 116>>
StrData == <<100, 97, 116, 97>>
StrId == <<105, 100>>
StrRetry == <<114, 101, 116, 114, 121>>

None == <<>>
Some(v) == <<v>>

EventDefault == [type_ |-> None, data |-> None, id |-> None, retry |-> None]

-----------------------------------------------------------------------------
(* <[u8]>::utf8_chunks().next(): the longest valid prefix and the invalid   *)
(* sequence that follows it (1 to 3 bytes, or what is left of the input).   *)

IsCont(b) == b >= 128 /\ b <= 191

\* The width a lead byte announces; 0 for a byte that can never lead.
Utf8Width(b) ==
    IF b < 128 THEN 1
    ELSE IF b >= 194 /\ b <= 223 THEN 2
    ELSE IF b >= 224 /\ b <= 239 THEN 3
    ELSE IF b >= 240 /\ b <= 244 THEN 4
    ELSE 0

\* The range the second byte must lie in, by lead byte.
SecondOk(b0, b1) ==
    CASE b0 = 224 -> b1 >= 160 /\ b1 <= 191
      [] b0 = 237 -> b1 >= 128 /\ b1 <= 159
      [] b0 = 240 -> b1 >= 144 /\ b1 <= 191
      [] b0 = 244 -> b1 >= 128 /\ b1 <= 143
      [] OTHER -> IsCont(b1)

\* How many bytes of the sequence starting at s[i] are well-formed so far:
\* the width itself when the sequence is complete and valid.
SeqGood(s, i) ==
    LET w == Utf8Width(s[i])
        n == Len(s)
    IN  IF w = 0 THEN 0
        ELSE IF w = 1 THEN 1
        ELSE IF i + 1 > n \/ ~SecondOk(s[i], s[i + 1]) THEN 1
        ELSE IF w = 2 THEN 2
        ELSE IF i + 2 > n \/ ~IsCont(s[i + 2]) THEN 2
        ELSE IF w = 3 THEN 3
        ELSE IF i + 3 > n \/ ~IsCont(s[i + 3]) THEN 3
        ELSE 4

\* The length of the longest valid prefix of s, scanned from s[i] on; an ASCII
\* byte is a sequence by itself.
RECURSIVE ValidUpTo(_, _)
ValidUpTo(s, i) ==
    IF i > Len(s) THEN Len(s)
    ELSE IF s[i] < 128 THEN ValidUpTo(s, i + 1)
    ELSE LET w == Utf8Width(s[i])
         IN  IF w # 0 /\ SeqGood(s, i) = w THEN ValidUpTo(s, i + w)
             ELSE i - 1

\* [valid |-> bytes of chunk.valid(), invalid |-> bytes of chunk.invalid()]
Utf8FirstChunk(s) ==
    LET v == ValidUpTo(s, 1)
        k == IF v = Len(s) THEN 0
             ELSE IF SeqGood(s, v + 1) = 0 THEN 1 ELSE SeqGood(s, v + 1)
    IN  [valid |-> SubSeq(s, 1, v), invalid |-> SubSeq(s, v + 1, v + k)]

-----------------------------------------------------------------------------
(* Line::from_str and Event::update_field *)

\* str::find / split_once: the index of the first byte of s in the set cs,
\* 0 when there is none.
FindFirst(s, cs) ==
    IF \E i \in 1..Len(s) : s[i] \in cs
    THEN CHOOSE i \in 1..Len(s) :
            s[i] \in cs /\ \A j \in 1..(i - 1) : s[j] \notin cs
    ELSE 0

\* Line::from_str without the strip of one leading space of the value.
LineFromStrNoStrip(line) ==
    LET c == FindFirst(line, {COLON})
    IN  IF c # 0
        THEN IF c > 1
             THEN [kind |-> "Field", name |-> SubSeq(line, 1, c - 1),
                   value |-> SubSeq(line, c + 1, Len(line))]
             ELSE [kind |-> "Comment", name |-> <<>>,
                   value |-> SubSeq(line, c + 1, Len(line))]
        ELSE IF line # <<>>
             THEN [kind |-> "Field", name |-> line, value |-> <<>>]
             ELSE [kind |-> "Empty", name |-> <<>>, value |-> <<>>]

\* Line::from_str with every leading space of the value stripped.
RECURSIVE StripSpaces(_)
StripSpaces(v) == IF v # <<>> /\ v[1] = SP THEN StripSpaces(Tail(v)) ELSE v

LineFromStrTrim(line) ==
    LET l == LineFromStrNoStrip(line)
    IN  IF l.kind = "Field" THEN [l EXCEPT !.value = StripSpaces(l.value)] ELSE l

LineFromStr(line) ==
    LET c == FindFirst(line, {COLON})
    IN  IF c # 0
        THEN LET name == SubSeq(line, 1, c - 1)
                 value == SubSeq(line, c + 1, Len(line))
             IN  IF name # <<>>
                 THEN [kind |-> "Field", name |-> name,
                       value |-> IF value # <<>> /\ value[1] = SP
                                 THEN Tail(value) ELSE value]
                 ELSE [kind |-> "Comment", name |-> <<>>, value |-> value]
        ELSE IF line # <<>>
             THEN [kind |-> "Field", name |-> line, value |-> <<>>]
             ELSE [kind |-> "Empty", name |-> <<>>, value |-> <<>>]

IsDigit(b) == b >= 48 /\ b <= 57

RECURSIVE DigitsValue(_)
DigitsValue(ds) ==
    IF ds = <<>> THEN 0
    ELSE 10 * DigitsValue(SubSeq(ds, 1, Len(ds) - 1)) + (ds[Len(ds)] - 48)

\* str::parse::<u64>: an optional '+', then one or more decimal digits.
\* None when the text is not of that shape.  (Values here stay far below
\* 2^64, where the real parse would also fail.)
ParseU64(value) ==
    LET ds == IF value # <<>> /\ value[1] = 43 THEN Tail(value) ELSE value
    IN  IF ds # <<>> /\ \A i \in 1..Len(ds) : IsDigit(ds[i])
        THEN Some(DigitsValue(ds))
        ELSE None

\* update_field with a data line replacing the data.
UpdateFieldReplace(ev, name, value) ==
    CASE name = StrEvent -> [ev EXCEPT !.type_ = Some(value)]
      [] name = StrData -> [ev EXCEPT !.data = Some(value)]
      [] name = StrId -> [ev EXCEPT !.id = Some(value)]
      [] name = StrRetry ->
            IF ParseU64(value) # None
            THEN [ev EXCEPT !.retry = ParseU64(value)]
            ELSE ev
      [] OTHER -> ev

UpdateField(ev, name, value) ==
    CASE name = StrEvent -> [ev EXCEPT !.type_ = Some(value)]
      [] name = StrData ->
            [ev EXCEPT !.data = IF ev.data # None
                                THEN Some(ev.data[1] \o <<LF>> \o value)
                                ELSE Some(value)]
      [] name = StrId -> [ev EXCEPT !.id = Some(value)]
      [] name = StrRetry ->
            IF ParseU64(value) # None
            THEN [ev EXCEPT !.retry = ParseU64(value)]
            ELSE ev
      [] OTHER -> ev

-----------------------------------------------------------------------------
(* Line::write_to and Event::write_to *)

\* Line::Field.write_to with the ": " written before an empty value too.
LineWriteToAlways(name, value) == name \o <<COLON, SP>> \o value

\* Line::Field { name, value }.write_to
LineWriteTo(name, value) ==
    IF value # <<>> THEN name \o <<COLON, SP>> \o value ELSE name

\* str::split('\n'): the segments between the LFs, at least one.
RECURSIVE SplitLf(_)
SplitLf(s) ==
    LET i == FindFirst(s, {LF})
    IN  IF i = 0 THEN <<s>>
        ELSE <<SubSeq(s, 1, i - 1)>> \o SplitLf(SubSeq(s, i + 1, Len(s)))

\* The decimal digits of a number, as write!("{}") prints it.
RECURSIVE Digits(_)
Digits(n) ==
    IF n < 10 THEN <<48 + n>> ELSE Digits(n \div 10) \o <<48 + (n % 10)>>

RECURSIVE WriteLines(_, _)
WriteLines(name, values) ==
    IF values = <<>> THEN <<>>
    ELSE LineWriteTo(name, Head(values)) \o <<LF>>
         \o WriteLines(name, Tail(values))

EventWriteTo(ev) ==
    WriteLines(StrEvent, ev.type_)
    \o (IF ev.data # None THEN WriteLines(StrData, SplitLf(ev.data[1])) ELSE <<>>)
    \o WriteLines(StrId, ev.id)
    \o (IF ev.retry # None
        THEN StrRetry \o <<COLON, SP>> \o Digits(ev.retry[1]) \o <<LF>>
        ELSE <<>>)
    \o <<LF>>

-----------------------------------------------------------------------------
(* EventIterator::next: consume complete lines of data until one Event is  *)
(* dispatched or no line terminator is left.                               *)

\* Every terminator taken for one byte.
TerminatorLenOne(data, i) == 1

\* How many bytes the terminator found at data[i] takes.
TerminatorLen(data, i) ==
    IF i + 1 <= Len(data) /\ data[i] = CR /\ data[i + 1] = LF THEN 2 ELSE 1

\* An Event that is only its data counts as set.
EventHasData(ev) == ev.data # None /\ ev.data[1] # <<>>

\* self.event != Event::default()
EventIsSet(ev) == ev # EventDefault

\* One pass of the while loop, for a data that holds a CR or an LF: the
\* line split off and its terminator, the Line it is, the Event and the
\* data after the pass, and the Event the pass returns (None: it goes on).
LoopPass(ev, data) ==
    LET i == FindFirst(data, {CR, LF})
        line == SubSeq(data, 1, i - 1)
        remaining == SubSeq(data, i + TerminatorLen(data, i), Len(data))
        l == LineFromStr(line)
        seen == [text |-> line,
                 term |-> SubSeq(data, i, i + TerminatorLen(data, i) - 1),
                 kind |-> l.kind, name |-> l.name, value |-> l.value]
    IN  CASE l.kind = "Comment" ->
                [line |-> seen, item |-> None, event |-> ev, data |-> remaining]
          [] l.kind = "Field" ->
                [line |-> seen, item |-> None,
                 event |-> UpdateField(ev, l.name, l.value), data |-> remaining]
          [] OTHER ->
                IF EventIsSet(ev)
                THEN [line |-> seen, item |-> Some(ev), event |-> EventDefault,
                      data |-> remaining]
                ELSE [line |-> seen, item |-> None, event |-> ev,
                      data |-> remaining]

\* next(): passes of the loop until one returns an Event or no terminator
\* is left.  (The pass is bound over a singleton, so it is computed once.)
RECURSIVE EventIteratorNext(_, _)
EventIteratorNext(ev, data) ==
    IF FindFirst(data, {CR, LF}) = 0
    THEN [item |-> None, event |-> ev, data |-> data]
    ELSE CHOOSE r \in {IF p.item # None
                       THEN [item |-> p.item, event |-> p.event, data |-> p.data]
                       ELSE EventIteratorNext(p.event, p.data) :
                       p \in {LoopPass(ev, data)}} : TRUE

\* A for loop over the iterator: next() until it returns None.
RECURSIVE Drain(_, _, _)
Drain(ev, data, out) ==
    LET r == EventIteratorNext(ev, data)
    IN  IF r.item = None
        THEN [events |-> out, event |-> r.event, data |-> r.data]
        ELSE Drain(r.event, r.data, out \o r.item)

-----------------------------------------------------------------------------
(* EventReader::next_events, the iteration, and EventReaderIterator::drop   *)

\* The bytes decoded by this call: the carried-over suffix, then the chunk.
\* (reader.prefix is the buffer they are joined in; it is cleared on entry, so
\* it carries nothing from one call to the next and is not part of the state.)
NextEventsInput(rd, bytes) == rd.suffix \o bytes

\* next_events bails when bytes follow the first invalid sequence.
DecodeFails(ch, input) == Len(ch.valid) + Len(ch.invalid) # Len(input)

\* drop with the unconsumed text put behind the suffix.
DropIteratorBehind(rd, ev, data) ==
    [rd EXCEPT !.event = ev, !.suffix = rd.suffix \o data]

\* drop: the iterator's Event goes back to the reader and the text it has
\* not consumed is pushed in front of the suffix.
DropIterator(rd, ev, data) ==
    [rd EXCEPT !.event = ev, !.suffix = data \o rd.suffix]

\* What next_events stores in the (drained) suffix: the invalid bytes that
\* end the input.
CarryOverDropped(ch) == <<>>

CarryOver(ch) == ch.invalid

\* One next_events call whose iterator is run to its end and dropped:
\* [reader, events, failed].
NextEventsAll(rd, bytes) ==
    LET input == NextEventsInput(rd, bytes)
        ch == Utf8FirstChunk(input)
    IN  IF DecodeFails(ch, input)
        THEN [reader |-> [rd EXCEPT !.suffix = <<>>],
              events |-> <<>>, failed |-> TRUE]
        ELSE LET taken == [event |-> EventDefault, suffix |-> CarryOver(ch)]
                 d == Drain(rd.event, ch.valid, <<>>)
             IN  [reader |-> DropIterator(taken, d.event, d.data),
                  events |-> d.events, failed |-> FALSE]

EventReaderDefault == [event |-> EventDefault, suffix |-> <<>>]

-----------------------------------------------------------------------------
(* The reverse proxy: configuration and request conversion                 *)
(* (openai/proxy.rs, main.rs).  A path is the sequence of its pieces; a    *)
(* JSON object is a record whose optional members are Options.             *)

PathCompletions == <<"/chat", "/completions">>
PathV1Completions == <<"/v1", "/chat", "/completions">>

\* ReverseProxy::new(url)
ReverseProxyNew(host) ==
    [host |-> host, proxy |-> None, model |-> "", kind |-> "LlamaCpp",
     api_key |-> None, system_prompt |-> None]

\* The ReverseProxy main builds for a backend host, a forward proxy and a
\* system prompt.
MainConfig(host, proxy, prompt) ==
    [ReverseProxyNew(host) EXCEPT
        !.proxy = proxy,
        !.kind = IF host = "api.openai.com" THEN "OpenAi" ELSE "LlamaCpp",
        !.model = IF host = "api.openai.com" THEN "gpt-4o-mini" ELSE "",
        !.api_key = IF host = "api.openai.com" THEN Some("key") ELSE None,
        !.system_prompt = prompt]

Configs ==
    { MainConfig(h, px, pr) : h \in {"api.openai.com", "localhost"},
                              px \in {None, Some("proxy")},
                              pr \in {None, Some("sys")} }

\* serde's decoding of api::Message: the members role and content, any
\* other member ignored.
DecodeMessage(m) == [role |-> m.role, content |-> m.content]

\* serde_json::from_slice::<api::Request>: None when the body is no JSON
\* object or lacks model or messages.
DecodeRequest(body) ==
    IF ~body.json \/ body.model = None \/ body.messages = None
    THEN None
    ELSE Some([model |-> body.model[1],
               messages |-> [i \in 1..Len(body.messages[1]) |->
                                DecodeMessage(body.messages[1][i])],
               stream |-> body.stream])

\* The system message put after the client's messages.
OutMessagesAppend(c, msgs) ==
    msgs \o (IF c.system_prompt # None
             THEN <<[role |-> "system", content |-> c.system_prompt[1]]>>
             ELSE <<>>)

\* The messages of the outgoing request.
OutMessages(c, msgs) ==
    (IF c.system_prompt # None
     THEN <<[role |-> "system", content |-> c.system_prompt[1]]>>
     ELSE <<>>) \o msgs

\* One path for both kinds of backend.
BackendPathSame(kind) == PathCompletions

\* The path_and_query of the outgoing request.
BackendPath(kind) ==
    IF kind = "LlamaCpp" THEN PathCompletions ELSE PathV1Completions

\* ReverseProxy::convert_request: [ok, err, out, streaming]
ConvertRequest(c, req) ==
    IF req.uri.path # PathCompletions
    THEN [ok |-> FALSE, err |-> "Path must be '/chat/completions'",
          out |-> None, streaming |-> FALSE]
    ELSE LET msg == DecodeRequest(req.body)
         IN  IF msg = None
             THEN [ok |-> FALSE, err |-> "request body: invalid JSON",
                   out |-> None, streaming |-> FALSE]
             ELSE LET streaming == IF msg[1].stream # None
                                   THEN msg[1].stream[1] ELSE FALSE
                  IN  [ok |-> TRUE, err |-> "",
                       out |-> Some(
                         [method |-> "POST",
                          uri |-> [path |-> BackendPath(c.kind), query |-> None],
                          host |-> c.host,
                          accept |-> "application/json",
                          content_type |-> "application/json",
                          authorization |-> c.api_key,
                          body |-> [model |-> c.model,
                                    messages |-> OutMessages(c, msg[1].messages),
                                    stream |-> Some(streaming)]]),
                       streaming |-> streaming]

\* Response::status().is_success()
IsSuccess(status) == status >= 200 /\ status <= 299

\* The head of ReverseProxy::convert_response: [ok, err, res].  bodyOk tells
\* whether a buffered body decodes as api::Response.
ConvertResponse(status, streaming, bodyOk) ==
    IF ~IsSuccess(status)
    THEN [ok |-> FALSE, err |-> "Response status is not success", res |-> None]
    ELSE IF ~streaming /\ ~bodyOk
    THEN [ok |-> FALSE, err |-> "response body: invalid JSON", res |-> None]
    ELSE [ok |-> TRUE, err |-> "",
          res |-> Some([status |-> 200,
                        content_type |-> IF streaming THEN "text/event-stream"
                                         ELSE "application/json",
                        body |-> IF streaming THEN "stream" ELSE "choices"])]

\* The error of forward handed on to hyper.
CallResultPropagate(fwd) ==
    IF fwd.ok THEN [kind |-> "Ok", res |-> fwd.res]
    ELSE [kind |-> "Err", res |-> None]

\* Service::call: what the client gets for the outcome of forward.  An
\* error becomes a 500 response that carries its text.
CallResult(fwd) ==
    IF fwd.ok THEN [kind |-> "Ok", res |-> fwd.res]
    ELSE [kind |-> "Ok",
          res |-> Some([status |-> 500, content_type |-> "text/plain",
                        body |-> fwd.err])]

Failure(text) == [ok |-> FALSE, err |-> text, res |-> None]

-----------------------------------------------------------------------------
(* The closure convert_response maps over the frames of a streamed body.   *)
(* The data of an Event is a text; here a text is [text, json]: text is    *)
(* "[DONE]", "{...}" for the text of a JSON object, or another word, and   *)
(* json is the object a JSON text denotes (None for the other texts).  A   *)
(* JSON object is a record of its members, None for a member that is       *)
(* absent or null.                                                         *)

DONE == [text |-> "[DONE]", json |-> None]

\* serde's decoding of api::StreamChoice: delta is required, its members
\* and index and finish_reason are optional, other members are ignored.
DecodeStreamChoice(c) ==
    IF c.delta = None THEN None
    ELSE Some([delta |-> [content |-> c.delta[1].content,
                          role |-> c.delta[1].role],
               index |-> c.index,
               finish_reason |-> c.finish_reason])

\* serde_json::from_str::<api::ResponseStreamChunk>: None for an error.
DecodeStreamChunk(data) ==
    IF data.json = None \/ data.json[1].choices = None THEN None
    ELSE LET cs == data.json[1].choices[1]
         IN  IF \E i \in 1..Len(cs) : DecodeStreamChoice(cs[i]) = None
             THEN None
             ELSE Some([choices |-> [i \in 1..Len(cs) |->
                                        DecodeStreamChoice(cs[i])[1]]])

\* serde_json::to_string of an api::ResponseStreamChunk
EncodeStreamChunk(msg) ==
    [text |-> "{...}",
     json |-> Some([choices |-> Some([i \in 1..Len(msg.choices) |->
                        [delta |-> Some(msg.choices[i].delta),
                         index |-> msg.choices[i].index,
                         finish_reason |-> msg.choices[i].finish_reason]]),
                    model |-> None])]

\* The role set in every choice.
NormalizeChoiceAlways(choice) ==
    [choice EXCEPT !.delta.role = Some("assistant")]

\* The body of `for choice in choices.iter_mut()`.
NormalizeChoice(choice) ==
    IF choice.finish_reason # None /\ choice.delta.role = None
    THEN [choice EXCEPT !.delta.role = Some("assistant")]
    ELSE choice

\* The body of `for event in event_reader.next_events(&input)?`:
\* [kind, event], kind "skip" for an Event without data, "err" for a `?`
\* that returns, "write" for an Event written to the output.
ConvertEvent(event) ==
    IF event.data = None
    THEN [kind |-> "skip", event |-> EventDefault]
    ELSE IF event.data[1] = DONE
    THEN [kind |-> "write", event |-> [EventDefault EXCEPT !.data = Some(DONE)]]
    ELSE LET msg == DecodeStreamChunk(event.data[1])
         IN  IF msg = None
             THEN [kind |-> "err", event |-> EventDefault]
             ELSE LET choices == [i \in 1..Len(msg[1].choices) |->
                                     NormalizeChoice(msg[1].choices[i])]
                  IN  [kind |-> "write",
                       event |-> [EventDefault EXCEPT !.data =
                           Some(EncodeStreamChunk([choices |-> choices]))]]

\* The loop over the Events of one frame: [kind, events], kind "data" with
\* the Events written to the frame's output in order, or "err" when a `?`
\* returned.
RECURSIVE ConvertEvents(_, _)
ConvertEvents(evs, out) ==
    IF evs = <<>> THEN [kind |-> "data", events |-> out]
    ELSE LET c == ConvertEvent(Head(evs))
         IN  IF c.kind = "err" THEN [kind |-> "err", events |-> <<>>]
             ELSE ConvertEvents(Tail(evs),
                                IF c.kind = "skip" THEN out
                                ELSE Append(out, c.event))

-----------------------------------------------------------------------------
(* The requests of one client session and the state of their calls         *)

MaxReq == 2
MaxConns == 3

Reqs == 1..MaxReq

\* A request whose call has not begun.  cur is the connection the send
\* loop has in hand (0: none), took the connection it found in the slot,
\* heldDead whether that one was found closed, connects the transports this
\* send has established, dispatchedOn the connection the request went out on,
\* sawDead the connections whose driver had finished when this send called
\* is_closed on them, alive the connection of its latest is_closed call when
\* the driver had not finished (0: none).
CallDefault ==
    [pc |-> "idle", inbound |-> None, out |-> None, streaming |-> FALSE,
     cur |-> 0, took |-> 0, heldDead |-> FALSE, connects |-> 0,
     dispatchedOn |-> 0, status |-> 0, failedAt |-> "", result |-> None,
     sawDead |-> {}, alive |-> 0]

\* A request that has not called send.  cur is the connection the loop of
\* send has in hand ("none", "alive", or "finished" once its driver task has
\* finished), connects the connects of this call that returned a
\* connection, result what send returned ("" while it has not).
SendDefault == [pc |-> "idle", cur |-> "none", connects |-> 0, result |-> ""]

\* The Line of a loop pass that has not run.
NoLine == [text |-> <<>>, term |-> <<>>, kind |-> "", name |-> <<>>, value |-> <<>>]

ItIdle ==
    /\ itText = <<>>
    /\ itData = <<>>
    /\ itEvent = EventDefault
    /\ itOut = <<>>
    /\ itLine = NoLine

TnIdle ==
    /\ tnRes = <<>>
    /\ tnPos = 0
    /\ tnLf = 0
    /\ tnState = "reading"

SvIdle ==
    /\ svInst = <<>>
    /\ svSlot = <<>>
    /\ svOwner = <<>>
    /\ svOpen = {}

CnIdle ==
    /\ cnUrl = [scheme |-> Some("http"), host |-> Some("localhost"), port |-> None]
    /\ cnProxy = None
    /\ cnPc = "start"
    /\ cnTrace = <<>>

BdIdle ==
    /\ bdBodies = <<>>
    /\ bdCur = 0
    /\ bdPos = 0
    /\ bdReader = EventReaderDefault
    /\ bdOut = <<>>
    /\ bdEnd = <<>>

RoIdle ==
    /\ roRouter = [routes |-> <<>>, default |-> "Nothing"]
    /\ roLog = <<>>

SdIdle ==
    /\ sdSlot = "none"
    /\ sdLock = None
    /\ sdCalls = [r \in Reqs |-> SendDefault]

HoIdle ==
    /\ hoHead = 0
    /\ hoUnread = None

PtIdle ==
    /\ ptReader = EventReaderDefault
    /\ ptEmitted = <<>>
    /\ ptShort = FALSE

StIdle ==
    /\ evIn = <<>>
    /\ evOut = [kind |-> "pending", events |-> <<>>]

PxIdle ==
    /\ cfg = ReverseProxyNew("localhost")
    /\ connection = None
    /\ lock = None
    /\ conns = 0
    /\ finished = {}
    /\ calls = [r \in Reqs |-> CallDefault]

-----------------------------------------------------------------------------
(* The response bodies fed to the reader: up to MaxLines lines, every line  *)
(* of one body ended the same way, by LF or by CRLF.                        *)

MaxLines == 3

Lines ==
    { <<>>,                                     \* blank line
      StrData,                                  \* data
      StrData \o <<COLON, SP, 120>>,            \* data: x
      StrData \o <<COLON, 208, 144>>,           \* data:<U+0410>
      StrId \o <<COLON, 49>>,                   \* id:1
      <<COLON, 99>> }                           \* :c

Eols == { <<LF>>, <<CR, LF>> }

RECURSIVE StreamsOf(_, _)
StreamsOf(n, eol) ==
    IF n = 0 THEN { <<>> }
    ELSE { l \o eol \o rest : l \in Lines, rest \in StreamsOf(n - 1, eol) }

Streams == UNION { StreamsOf(n, eol) : n \in 1..MaxLines, eol \in Eols }

\* The bytes fed so far end inside a multi-byte character.
MidChar(s, p) == Utf8FirstChunk(SubSeq(s, 1, p)).invalid # <<>>

\* The part of the state a specification does not use stays as it is here.
SseIdle ==
    /\ stream = <<>>
    /\ pos = 0
    /\ reader = EventReaderDefault
    /\ emitted = <<>>
    /\ failed = FALSE
    /\ splitChar = FALSE

RtIdle ==
    /\ rtStage = "start"
    /\ rtEvent = EventDefault
    /\ rtWire = <<>>
    /\ rtParsed = <<>>
    /\ rtWire2 = <<>>

InitSse ==
    /\ stream \in Streams
    /\ pos = 0
    /\ reader = EventReaderDefault
    /\ emitted = <<>>
    /\ failed = FALSE
    /\ splitChar = FALSE
    /\ RtIdle
    /\ PxIdle
    /\ StIdle
    /\ ItIdle
    /\ TnIdle
    /\ SvIdle
    /\ CnIdle
    /\ BdIdle
    /\ RoIdle
    /\ SdIdle
    /\ HoIdle
    /\ PtIdle

\* The body stream hands the reader its next chunk, of k bytes; the caller
\* iterates over every Event of the call and drops the iterator.
NextEvents(k) ==
    /\ ~failed
    /\ pos + k <= Len(stream)
    /\ LET r == NextEventsAll(reader, SubSeq(stream, pos + 1, pos + k))
       IN  /\ reader' = r.reader
           /\ emitted' = emitted \o r.events
           /\ failed' = r.failed
    /\ pos' = pos + k
    /\ splitChar' = (splitChar \/ MidChar(stream, pos + k))
    /\ UNCHANGED <<stream, notSse>>

NextSse == \E k \in 1..Len(stream) : NextEvents(k)

SpecSse == InitSse /\ [][NextSse]_vars

\* The Events of the bytes fed so far when they are parsed in one call.
ParseWhole(bytes) == NextEventsAll(EventReaderDefault, bytes)

-----------------------------------------------------------------------------
(* Claims about the SSE codec *)

\* C1: chunk-split invariance.  Once a body has been fed completely, in
\* whatever chunks, the Events dispatched over all the calls are the Events
\* dispatched when the whole body is fed in one call, in the same order.
C1_ChunkSplitInvariance ==
    pos = Len(stream) => emitted = ParseWhole(stream).events

\* The bytes fed so far, and the Events of the call that has just returned.
Fed == SubSeq(stream, 1, pos)
Yielded == SubSeq(emitted', Len(emitted) + 1, Len(emitted'))

\* The LF at s[k] ends a blank line, where lines end with LF or CRLF.
BlankLineEnd(s, k) ==
    /\ s[k] = LF
    /\ \/ k = 1
       \/ s[k - 1] = LF
       \/ s[k - 1] = CR /\ (k = 2 \/ s[k - 2] = LF)

\* C9: pending state across calls.  A call yields no more Events than the
\* blank lines whose end it receives (none when it receives only part of an
\* event); the fields parsed so far stay pending in the reader; and the
\* Events yielded up to the dispatching call are those of the bytes fed so
\* far, each carrying the fields of all the calls that fed it.
C9_PendingAcrossCalls ==
    [][ pos' > pos =>
          /\ Len(Yielded) <= Cardinality({ k \in (pos + 1)..pos' :
                                             BlankLineEnd(stream, k) })
          /\ emitted' = ParseWhole(SubSeq(stream, 1, pos')).events
          /\ reader'.event = ParseWhole(SubSeq(stream, 1, pos')).reader.event
      ]_vars

\* The bytes end with the beginning of a multi-byte sequence that is valid
\* as far as it goes.
TruncatedTail(bytes) ==
    LET ch == Utf8FirstChunk(bytes)
    IN  /\ ch.invalid # <<>>
        /\ Len(ch.valid) + Len(ch.invalid) = Len(bytes)
        /\ SeqGood(bytes, Len(ch.valid) + 1) = Len(ch.invalid)

\* The index of the last CR or LF of bytes, 0 if there is none.
LastTerminator(bytes) ==
    IF \E k \in 1..Len(bytes) : bytes[k] \in {CR, LF}
    THEN CHOOSE k \in 1..Len(bytes) :
            bytes[k] \in {CR, LF} /\ \A j \in (k + 1)..Len(bytes) : bytes[j] \notin {CR, LF}
    ELSE 0

\* How many times the two-byte character U+0410 occurs, complete, in s.
CountChar(s) == Cardinality({ i \in 1..(Len(s) - 1) : s[i] = 208 /\ s[i + 1] = 144 })

RECURSIVE CountInData(_)
CountInData(evs) ==
    IF evs = <<>> THEN 0
    ELSE (IF Head(evs).data # None THEN CountChar(Head(evs).data[1]) ELSE 0)
         + CountInData(Tail(evs))

\* C10: a chunk that ends inside a multi-byte character.  No call on a valid
\* body fails; when the bytes fed end inside a character the reader carries
\* every byte after the last line terminator, the truncated bytes last; and
\* each character fed complete so far is once in the data of an Event
\* (dispatched or pending) or once in the carried bytes.
C10_TruncatedSequence ==
    /\ Utf8FirstChunk(stream).invalid = <<>> => ~failed
    /\ TruncatedTail(Fed) =>
          reader.suffix = SubSeq(Fed, LastTerminator(Fed) + 1, pos)
    /\ ~failed =>
          CountInData(emitted \o <<reader.event>>) + CountChar(reader.suffix)
            = CountChar(Fed)

\* A call ended between the two bytes of a character, and the body, fed to
\* its end, has dispatched an Event whose data is that character.
C10_Witness ==
    /\ splitChar
    /\ pos = Len(stream)
    /\ \E i \in 1..Len(emitted) : emitted[i].data = Some(<<208, 144>>)

-----------------------------------------------------------------------------
(* Serialize, parse, serialize again: Event::write_to against the parser.  *)

MaxStr == 2

RtChars == {120, SP, COLON, LF, CR}

RECURSIVE StrsUpTo(_)
StrsUpTo(n) ==
    IF n = 0 THEN { <<>> }
    ELSE StrsUpTo(n - 1)
         \cup { <<c>> \o t : c \in RtChars, t \in { u \in StrsUpTo(n - 1) : Len(u) = n - 1 } }

Opt(S) == { None } \cup { Some(v) : v \in S }

\* type and id from a few short texts, with and without a line break;
\* data from every text over RtChars of at most MaxStr bytes.
RtNames == { <<>>, <<120>>, <<SP, 120>>, <<120, LF, 121>>, <<120, CR>> }

RtEvents ==
    [type_ : Opt(RtNames), data : Opt(StrsUpTo(MaxStr)), id : Opt(RtNames),
     retry : Opt({0, 15})] \ { EventDefault }

InitRt ==
    /\ rtStage = "start"
    /\ rtEvent \in RtEvents
    /\ rtWire = <<>>
    /\ rtParsed = <<>>
    /\ rtWire2 = <<>>
    /\ SseIdle
    /\ PxIdle
    /\ StIdle
    /\ ItIdle
    /\ TnIdle
    /\ SvIdle
    /\ CnIdle
    /\ BdIdle
    /\ RoIdle
    /\ SdIdle
    /\ HoIdle
    /\ PtIdle

RtWrite ==
    /\ rtStage = "start"
    /\ rtWire' = EventWriteTo(rtEvent)
    /\ rtStage' = "written"
    /\ UNCHANGED <<rtEvent, rtParsed, rtWire2, notRt>>

RtParse ==
    /\ rtStage = "written"
    /\ rtParsed' = NextEventsAll(EventReaderDefault, rtWire).events
    /\ rtStage' = "parsed"
    /\ UNCHANGED <<rtEvent, rtWire, rtWire2, notRt>>

RECURSIVE WriteAll(_)
WriteAll(evs) ==
    IF evs = <<>> THEN <<>> ELSE EventWriteTo(Head(evs)) \o WriteAll(Tail(evs))

RtRewrite ==
    /\ rtStage = "parsed"
    /\ rtWire2' = WriteAll(rtParsed)
    /\ rtStage' = "rewritten"
    /\ UNCHANGED <<rtEvent, rtWire, rtParsed, notRt>>

NextRt == RtWrite \/ RtParse \/ RtRewrite

SpecRt == InitRt /\ [][NextRt]_vars

HasByte(opt, cs) == opt # None /\ \E i \in 1..Len(opt[1]) : opt[1][i] \in cs

\* An Event the wire format can carry: no line break inside type or id, no
\* CR inside data.
Representable(ev) ==
    /\ ~HasByte(ev.type_, {CR, LF})
    /\ ~HasByte(ev.id, {CR, LF})
    /\ ~HasByte(ev.data, {CR})

\* C2 as stated: for any non-empty Event, the parse of its serialization
\* dispatches exactly one Event, whose serialization is the same bytes.
C2_RoundTripAny ==
    rtStage = "rewritten" => Len(rtParsed) = 1 /\ rtWire2 = rtWire

\* C2 amended: the same, for the non-empty Events whose type and id hold no
\* CR or LF and whose data holds no CR.
C2_RoundTrip ==
    (rtStage = "rewritten" /\ Representable(rtEvent))
        => Len(rtParsed) = 1 /\ rtWire2 = rtWire

\* A representable Event with two data lines, a type and a retry has gone
\* through the round trip.
C2_Witness ==
    /\ rtStage = "rewritten"
    /\ Representable(rtEvent)
    /\ HasByte(rtEvent.data, {LF})
    /\ rtEvent.type_ = Some(<<SP, 120>>)
    /\ rtEvent.retry = Some(15)
    /\ rtWire2 = rtWire

-----------------------------------------------------------------------------
(* ReverseProxy::call, forward and send, one step per await or branch      *)

\* An inbound request: its URI and its JSON body.
Inbound(pth, js, msgs, st) ==
    [uri |-> [path |-> pth, query |-> None],
     body |-> [json |-> js, model |-> Some("m"), messages |-> Some(msgs),
               stream |-> st]]

UserHi == [role |-> "user", content |-> "hi", name |-> None]

\* The requests a client sends in this specification: on the completion
\* path with a body that decodes or not, streamed or not, and on other paths.
ProxyInbound ==
    { Inbound(PathCompletions, js, <<UserHi>>, st) :
        js \in BOOLEAN, st \in {None, Some(TRUE)} }
    \cup { Inbound(pth, TRUE, <<UserHi>>, None) :
        pth \in {PathV1Completions, <<"/chat", "/completions", "/x">>} }

\* The configurations main builds for the two kinds of backend.
ProxyConfigs == { MainConfig(h, None, None) : h \in {"api.openai.com", "localhost"} }

Statuses == {200, 503}

InitProxy ==
    /\ cfg \in ProxyConfigs
    /\ connection = None
    /\ lock = None
    /\ conns = 0
    /\ finished = {}
    /\ calls = [r \in Reqs |-> CallDefault]
    /\ SseIdle
    /\ RtIdle
    /\ StIdle
    /\ ItIdle
    /\ TnIdle
    /\ SvIdle
    /\ CnIdle
    /\ BdIdle
    /\ RoIdle
    /\ SdIdle
    /\ HoIdle
    /\ PtIdle

\* The call of request r ends: forward's outcome goes through Service::call.
Return(r, fwd) ==
    [calls[r] EXCEPT !.pc = "done", !.cur = 0, !.result = Some(CallResult(fwd)),
                     !.failedAt = IF fwd.ok THEN "" ELSE calls[r].pc]

\* Every connection taken for closed.
IsClosedAlways(c) == TRUE

\* Every connection taken for open.
IsClosedNever(c) == FALSE

\* Connection::is_closed
IsClosed(c) == c \in finished

\* hyper hands the service a request of the session.
Call(r, req) ==
    /\ calls[r].pc = "idle"
    /\ calls' = [calls EXCEPT ![r].pc = "convert_request",
                              ![r].inbound = Some(req)]
    /\ UNCHANGED <<cfg, connection, lock, conns, finished>>

ConvertRequestStep(r) ==
    /\ calls[r].pc = "convert_request"
    /\ LET cr == ConvertRequest(cfg, calls[r].inbound[1])
       IN  calls' = [calls EXCEPT ![r] =
                IF cr.ok
                THEN [@ EXCEPT !.pc = "lock", !.out = cr.out,
                               !.streaming = cr.streaming]
                ELSE Return(r, Failure(cr.err))]
    /\ UNCHANGED <<cfg, connection, lock, conns, finished>>

\* A lock that is handed out while another send holds it.
LockNoWait(r) ==
    /\ calls[r].pc = "lock"
    /\ lock' = Some(r)
    /\ calls' = [calls EXCEPT ![r].pc = "loop"]
    /\ UNCHANGED <<cfg, connection, conns, finished>>

\* self.connection.lock().await
Lock(r) ==
    /\ calls[r].pc = "lock"
    /\ lock = None
    /\ lock' = Some(r)
    /\ calls' = [calls EXCEPT ![r].pc = "loop"]
    /\ UNCHANGED <<cfg, connection, conns, finished>>

\* guard.take(): the connection of the slot, or none and a connect is due.
Take(r) ==
    /\ calls[r].pc = "loop"
    /\ IF connection # None
       THEN /\ calls' = [calls EXCEPT ![r].pc = "check",
                                      ![r].cur = connection[1],
                                      ![r].took = connection[1]]
            /\ connection' = None
       ELSE /\ calls' = [calls EXCEPT ![r].pc = "connect"]
            /\ UNCHANGED connection
    /\ UNCHANGED <<cfg, lock, conns, finished>>

\* Connection::connect / connect_through_proxy succeeds: a new transport,
\* its driver task spawned.
ConnectOk(r) ==
    /\ calls[r].pc = "connect"
    /\ conns < MaxConns
    /\ conns' = conns + 1
    /\ calls' = [calls EXCEPT ![r].pc = "check", ![r].cur = conns + 1,
                              ![r].connects = @ + 1]
    /\ UNCHANGED <<cfg, connection, lock, finished>>

\* A failed connect whose error returns with the guard still held.
ConnectErrHoldsLock(r) ==
    /\ calls[r].pc = "connect"
    /\ calls' = [calls EXCEPT ![r] = Return(r, Failure("connect failed"))]
    /\ UNCHANGED <<cfg, connection, lock, conns, finished>>

\* ... or fails: `?` returns the error and drops the guard.
ConnectErr(r) ==
    /\ calls[r].pc = "connect"
    /\ lock' = None
    /\ calls' = [calls EXCEPT ![r] = Return(r, Failure("connect failed"))]
    /\ UNCHANGED <<cfg, connection, conns, finished>>

\* if conn.is_closed() { continue } else { break guard.insert(conn) }
Check(r) ==
    /\ calls[r].pc = "check"
    /\ LET c == calls[r].cur
           seen == [calls[r] EXCEPT
                      !.sawDead = IF c \in finished THEN @ \cup {c} ELSE @,
                      !.alive = IF c \in finished THEN 0 ELSE c]
       IN  IF IsClosed(c)
           THEN /\ calls' = [calls EXCEPT ![r] =
                        [seen EXCEPT !.pc = "loop", !.cur = 0,
                                     !.heldDead = @ \/ c = calls[r].took]]
                /\ UNCHANGED connection
           ELSE /\ connection' = Some(c)
                /\ calls' = [calls EXCEPT ![r] = [seen EXCEPT !.pc = "dispatch"]]
    /\ UNCHANGED <<cfg, lock, conns, finished>>

\* conn.send(req).await returns the response head, and send returns,
\* dropping the guard.
DispatchOk(r, st) ==
    /\ calls[r].pc = "dispatch"
    /\ ~IsClosed(calls[r].cur)
    /\ lock' = None
    /\ calls' = [calls EXCEPT ![r].pc = "convert_response",
                              ![r].dispatchedOn = calls[r].cur,
                              ![r].status = st]
    /\ UNCHANGED <<cfg, connection, conns, finished>>

\* ... or returns a transport error: the connection is closed or breaks.
DispatchErr(r) ==
    /\ calls[r].pc = "dispatch"
    /\ lock' = None
    /\ finished' = finished \cup {calls[r].cur}
    /\ calls' = [calls EXCEPT ![r] =
            [Return(r, Failure("connection closed")) EXCEPT
                !.dispatchedOn = calls[r].cur]]
    /\ UNCHANGED <<cfg, connection, conns>>

ConvertResponseStep(r, bodyOk) ==
    /\ calls[r].pc = "convert_response"
    /\ calls' = [calls EXCEPT ![r] =
            Return(r, ConvertResponse(calls[r].status, calls[r].streaming,
                                      bodyOk))]
    /\ UNCHANGED <<cfg, connection, lock, conns, finished>>

\* The driver task of connection c finishes: the peer closed, or an error.
DriverFinish(c) ==
    /\ c \in 1..conns
    /\ c \notin finished
    /\ finished' = finished \cup {c}
    /\ UNCHANGED <<cfg, connection, lock, conns, calls>>

NextProxy ==
    \/ \E r \in Reqs, req \in ProxyInbound : Call(r, req) /\ UNCHANGED notPx
    \/ \E r \in Reqs : ConvertRequestStep(r) /\ UNCHANGED notPx
    \/ \E r \in Reqs : Lock(r) /\ UNCHANGED notPx
    \/ \E r \in Reqs : Take(r) /\ UNCHANGED notPx
    \/ \E r \in Reqs : ConnectOk(r) /\ UNCHANGED notPx
    \/ \E r \in Reqs : ConnectErr(r) /\ UNCHANGED notPx
    \/ \E r \in Reqs : Check(r) /\ UNCHANGED notPx
    \/ \E r \in Reqs, st \in Statuses : DispatchOk(r, st) /\ UNCHANGED notPx
    \/ \E r \in Reqs : DispatchErr(r) /\ UNCHANGED notPx
    \/ \E r \in Reqs, b \in BOOLEAN : ConvertResponseStep(r, b) /\ UNCHANGED notPx
    \/ \E c \in 1..MaxConns : DriverFinish(c) /\ UNCHANGED notPx

SpecProxy == InitProxy /\ [][NextProxy]_vars

-----------------------------------------------------------------------------
(* Claims about the connection slot and the call boundary *)

Dispatched(r) == calls[r].dispatchedOn # 0

\* C3: connection reuse.  A send that finds a connection in the slot and
\* finds it alive dispatches on that connection and establishes none; and
\* as long as no driver has finished, one transport at most has been
\* established, exactly one once a request has been dispatched, and every
\* request has gone out on it.
C3_ConnectionReuse ==
    /\ \A r \in Reqs :
          (Dispatched(r) /\ calls[r].took # 0 /\ ~calls[r].heldDead)
              => calls[r].dispatchedOn = calls[r].took /\ calls[r].connects = 0
    /\ finished = {} =>
          /\ conns <= 1
          /\ \A r \in Reqs : Dispatched(r) => conns = 1 /\ calls[r].dispatchedOn = 1

\* Two requests have gone out on the one transport, the second after the
\* first one's response, and no driver has finished.
C3_Witness ==
    /\ finished = {}
    /\ conns = 1
    /\ \A r \in Reqs : calls[r].pc = "done" /\ calls[r].dispatchedOn = 1
    /\ \E r \in Reqs : calls[r].took = 1 /\ calls[r].connects = 0

\* C4: replace on death.  A send that found the held connection closed has
\* established exactly one new transport when it dispatches, and dispatches
\* on that one.
C4_ReplaceOnDeath ==
    \A r \in Reqs :
        (Dispatched(r) /\ calls[r].heldDead)
            => calls[r].connects = 1 /\ calls[r].dispatchedOn # calls[r].took

\* The texts of the errors a call can fail with at each stage.
ErrorTexts(stage) ==
    CASE stage = "convert_request" ->
            {"Path must be '/chat/completions'", "request body: invalid JSON"}
      [] stage = "connect" -> {"connect failed"}
      [] stage = "dispatch" -> {"connection closed"}
      [] stage = "convert_response" ->
            {"Response status is not success", "response body: invalid JSON"}
      [] OTHER -> {}

\* What request r can do next.
StepOf(r) ==
    \/ ConvertRequestStep(r) \/ Lock(r) \/ Take(r) \/ ConnectOk(r)
    \/ ConnectErr(r) \/ Check(r) \/ DispatchErr(r)
    \/ \E st \in Statuses : DispatchOk(r, st)
    \/ \E b \in BOOLEAN : ConvertResponseStep(r, b)

\* C5: the error policy of call.  A call that has ended has returned a
\* response, never an error; when a stage failed the response is a 500 of
\* type text/plain whose body is that stage's error text, and otherwise a
\* 200; a backend status that is no success yields the 500, not itself.
\* A call that has not ended can go on, or waits for the lock.
C5_ErrorPolicy ==
    \A r \in Reqs :
        /\ calls[r].pc = "done" =>
              /\ calls[r].result # None
              /\ calls[r].result[1].kind = "Ok"
              /\ calls[r].result[1].res # None
              /\ LET res == calls[r].result[1].res[1]
                 IN  /\ calls[r].failedAt # "" =>
                            /\ res.status = 500
                            /\ res.content_type = "text/plain"
                            /\ res.body \in ErrorTexts(calls[r].failedAt)
                     /\ calls[r].failedAt = "" => res.status = 200
                     /\ (calls[r].status # 0 /\ ~IsSuccess(calls[r].status)) =>
                            /\ calls[r].failedAt = "convert_response"
                            /\ res.status = 500
                            /\ res.body = "Response status is not success"
        /\ calls[r].pc \notin {"idle", "done"} =>
              \/ calls[r].pc = "lock" /\ lock # None
              \/ ENABLED StepOf(r)

\* Calls have ended in a 500 for a refused status and for a failed connect.
C5_Witness ==
    /\ \E r \in Reqs :
          /\ calls[r].pc = "done"
          /\ calls[r].status = 503
          /\ calls[r].result[1].res[1].status = 500
    /\ \E r \in Reqs :
          /\ calls[r].pc = "done"
          /\ calls[r].failedAt = "connect"
          /\ calls[r].result[1].res[1].body = "connect failed"

\* C7: path handling.  A request whose path is not /chat/completions ends
\* in an error at convert_request: it never takes the lock, establishes no
\* transport and is dispatched nowhere.  A request that reaches the send
\* carries the path of the backend kind.
C7_PathHandling ==
    \A r \in Reqs :
        calls[r].inbound # None =>
            /\ (calls[r].inbound[1].uri.path # PathCompletions
                /\ calls[r].pc # "convert_request") =>
                  /\ calls[r].pc = "done"
                  /\ calls[r].failedAt = "convert_request"
                  /\ calls[r].out = None
                  /\ ~Dispatched(r)
                  /\ calls[r].connects = 0
                  /\ lock # Some(r)
            /\ calls[r].out # None =>
                  /\ calls[r].inbound[1].uri.path = PathCompletions
                  /\ cfg.kind = "LlamaCpp" =>
                        calls[r].out[1].uri.path = <<"/chat", "/completions">>
                  /\ cfg.kind = "OpenAi" =>
                        calls[r].out[1].uri.path = <<"/v1", "/chat", "/completions">>

\* One request was turned away for its path, /chat/completions/x, and one
\* went out to an OpenAI-style backend.
C7_Witness ==
    /\ cfg.kind = "OpenAi"
    /\ \E r \in Reqs :
          /\ calls[r].pc = "done"
          /\ calls[r].inbound[1].uri.path = <<"/chat", "/completions", "/x">>
          /\ calls[r].failedAt = "convert_request"
    /\ \E r \in Reqs :
          /\ Dispatched(r)
          /\ calls[r].out[1].uri.path = <<"/v1", "/chat", "/completions">>

-----------------------------------------------------------------------------
(* convert_request over the message lists of a client                      *)

MaxMsgs == 2

\* The messages of a client: a role, a content, and for some a member the
\* proxy does not know.
ClientMessages ==
    { [role |-> r, content |-> c, name |-> n] :
        r \in {"user", "assistant", "system"},
        c \in {"hi", "sys"},
        n \in {None, Some("bob")} }

RECURSIVE MessageLists(_)
MessageLists(n) ==
    IF n = 0 THEN { <<>> }
    ELSE { Append(l, m) : l \in MessageLists(n - 1), m \in ClientMessages }

\* Requests on the completion path: bodies with up to MaxMsgs messages,
\* and one body without the member messages.
ConvInbound ==
    { Inbound(PathCompletions, TRUE, msgs, st) :
        msgs \in UNION { MessageLists(n) : n \in 0..MaxMsgs },
        st \in {None, Some(FALSE)} }
    \cup { [Inbound(PathCompletions, TRUE, <<>>, None) EXCEPT
                !.body.messages = None] }

InitConv ==
    /\ cfg \in Configs
    /\ connection = None
    /\ lock = None
    /\ conns = 0
    /\ finished = {}
    /\ calls = [r \in Reqs |-> CallDefault]
    /\ SseIdle
    /\ RtIdle
    /\ StIdle
    /\ ItIdle
    /\ TnIdle
    /\ SvIdle
    /\ CnIdle
    /\ BdIdle
    /\ RoIdle
    /\ SdIdle
    /\ HoIdle
    /\ PtIdle

NextConv ==
    \/ \E req \in ConvInbound : Call(1, req) /\ UNCHANGED notPx
    \/ ConvertRequestStep(1) /\ UNCHANGED notPx

SpecConv == InitConv /\ [][NextConv]_vars

\* C6: system-prompt injection.  The outgoing request of every accepted
\* request carries the client's messages, each with its role and content,
\* all of them and in the client's order; when a system prompt is
\* configured they come after one message of role system whose content is
\* the prompt, and when none is configured nothing comes before them.
C6_SystemPromptInjection ==
    \A r \in Reqs :
        calls[r].out # None =>
            LET client == calls[r].inbound[1].body.messages[1]
                sent == calls[r].out[1].body.messages
                k == IF cfg.system_prompt # None THEN 1 ELSE 0
            IN  /\ Len(sent) = Len(client) + k
                /\ k = 1 => sent[1] = [role |-> "system",
                                        content |-> cfg.system_prompt[1]]
                /\ \A i \in 1..Len(client) :
                      /\ sent[i + k].role = client[i].role
                      /\ sent[i + k].content = client[i].content

\* With the prompt "sys" configured, a conversation of an assistant's and
\* then a user's message went out as three messages.
C6_Witness ==
    /\ cfg.system_prompt = Some("sys")
    /\ calls[1].out # None
    /\ Len(calls[1].inbound[1].body.messages[1]) = 2
    /\ calls[1].inbound[1].body.messages[1][1].role = "assistant"
    /\ calls[1].inbound[1].body.messages[1][2].role = "user"
    /\ Len(calls[1].out[1].body.messages) = 3

-----------------------------------------------------------------------------
(* The frames of a streamed response                                       *)

MaxChoices == 2

\* The choices of a backend's chunk: with a delta or, malformed, without.
StreamChoices ==
    { [delta |-> Some([content |-> c, role |-> ro]), index |-> ix,
       finish_reason |-> fr] :
        c \in {None, Some("hi")},
        ro \in {None, Some("user"), Some("assistant")},
        ix \in {None, Some(0)},
        fr \in {None, Some("stop")} }
    \cup { [delta |-> None, index |-> Some(0), finish_reason |-> None] }

RECURSIVE ChoiceLists(_)
ChoiceLists(n) ==
    IF n = 0 THEN { <<>> }
    ELSE { Append(l, c) : l \in ChoiceLists(n - 1), c \in StreamChoices }

\* The texts a backend sends as data: chunks of up to MaxChoices choices,
\* a JSON object without choices, the sentinel, and a text that is no JSON.
StreamData ==
    { [text |-> "{...}",
       json |-> Some([choices |-> Some(cs), model |-> Some("m")])] :
        cs \in UNION { ChoiceLists(n) : n \in 0..MaxChoices } }
    \cup { [text |-> "{...}",
            json |-> Some([choices |-> None, model |-> Some("m")])],
           DONE,
           [text |-> "oops", json |-> None] }

StreamEvents ==
    { [EventDefault EXCEPT !.data = d, !.id = i] :
        d \in Opt(StreamData), i \in {None, Some(<<49>>)} }
    \ { EventDefault }

\* The Events that follow the first one of a frame.
TailEvents ==
    { [EventDefault EXCEPT !.data = Some(DONE), !.id = Some(<<49>>)],
      [EventDefault EXCEPT !.id = Some(<<49>>)],
      [EventDefault EXCEPT !.data = Some([text |-> "oops", json |-> None])] }

\* What next_events dispatches for one frame.
Frames ==
    { <<>> } \cup { <<e>> : e \in StreamEvents }
    \cup { <<e, t>> : e \in StreamEvents, t \in TailEvents }

InitStream ==
    /\ evIn \in Frames
    /\ evOut = [kind |-> "pending", events |-> <<>>]
    /\ SseIdle
    /\ RtIdle
    /\ PxIdle
    /\ ItIdle
    /\ TnIdle
    /\ SvIdle
    /\ CnIdle
    /\ BdIdle
    /\ RoIdle
    /\ SdIdle
    /\ HoIdle
    /\ PtIdle

\* The closure takes the data frame.
ConvertFrame ==
    /\ evOut.kind = "pending"
    /\ evOut' = ConvertEvents(evIn, <<>>)
    /\ UNCHANGED <<evIn, notSt>>

NextStream == ConvertFrame

SpecStream == InitStream /\ [][NextStream]_vars

\* The Events of the frame that carry data, in order.
WithData == SelectSeq(evIn, LAMBDA e : e.data # None)

\* C8: role normalization.  In a frame that converts, every Event with
\* data yields one written Event, in order; the chunk of one that is not
\* the sentinel has as many choices as came in, in the same order, each
\* with the content, index and finish reason it came with; its role is
\* "assistant" when it came with a finish reason and no role, and the role
\* it came with otherwise.
C8_RoleNormalization ==
    evOut.kind = "data" =>
        /\ Len(evOut.events) = Len(WithData)
        /\ \A k \in 1..Len(WithData) :
              WithData[k].data[1] # DONE =>
                LET cin == WithData[k].data[1].json[1].choices[1]
                    cout == evOut.events[k].data[1].json[1].choices[1]
                IN  /\ Len(cout) = Len(cin)
                    /\ \A i \in 1..Len(cin) :
                          /\ cout[i].delta # None
                          /\ cout[i].delta[1].content = cin[i].delta[1].content
                          /\ cout[i].index = cin[i].index
                          /\ cout[i].finish_reason = cin[i].finish_reason
                          /\ cout[i].delta[1].role =
                                IF cin[i].finish_reason # None
                                   /\ cin[i].delta[1].role = None
                                THEN Some("assistant")
                                ELSE cin[i].delta[1].role

\* A chunk of two choices was written: the first came with a finish reason
\* and no role and went out as the assistant's, the second came without
\* either and went out without a role.
C8_Witness ==
    /\ evOut.kind = "data"
    /\ Len(evIn) = 1
    /\ Len(evOut.events) = 1
    /\ evIn[1].data[1] # DONE
    /\ LET cin == evIn[1].data[1].json[1].choices[1]
           cout == evOut.events[1].data[1].json[1].choices[1]
       IN  /\ Len(cin) = 2
           /\ cin[1].finish_reason = Some("stop")
           /\ cin[1].delta[1].role = None
           /\ cin[2].finish_reason = None
           /\ cin[2].delta[1].role = None
           /\ cout[1].delta[1].role = Some("assistant")
           /\ cout[2].delta[1].role = None

-----------------------------------------------------------------------------
(* An EventIterator over one text, pass by pass of its loop                *)

MaxIterLines == 3

StrFoo == <<102, 111, 111>>

\* The lines of the texts: blank, data lines (bare, with one and with two
\* spaces, with a second colon), a type, ids, retries that parse and one
\* that does not, a comment, an unknown field, and a line with a CR in it.
IterLines ==
    { <<>>,
      StrData,                                      \* data
      StrData \o <<COLON, SP, 120>>,                \* data: x
      StrData \o <<COLON, SP, SP, 120>>,            \* data:  x
      StrData \o <<COLON, 120, COLON, 120>>,        \* data:x:x
      StrEvent \o <<COLON, SP, 120>>,               \* event: x
      StrId,                                        \* id
      StrId \o <<COLON, 49>>,                       \* id:1
      StrRetry \o <<COLON, SP, 49, 53>>,            \* retry: 15
      StrRetry \o <<COLON, 43, 50>>,                \* retry:+2
      StrRetry \o <<COLON, SP, 120>>,               \* retry: x
      <<COLON, 99>>,                                \* :c
      StrFoo \o <<COLON, SP, 120>>,                 \* foo: x
      StrData \o <<COLON, 120, CR>> \o StrId }      \* data:x<CR>id

RECURSIVE TextsOf(_, _)
TextsOf(n, eol) ==
    IF n = 0 THEN { <<>> }
    ELSE { l \o eol \o rest : l \in IterLines, rest \in TextsOf(n - 1, eol) }

IterTexts == UNION { TextsOf(n, eol) : n \in 1..MaxIterLines, eol \in Eols }

InitIter ==
    /\ itText \in IterTexts
    /\ itData = itText
    /\ itEvent = EventDefault
    /\ itOut = <<>>
    /\ itLine = NoLine
    /\ SseIdle
    /\ RtIdle
    /\ PxIdle
    /\ StIdle
    /\ TnIdle
    /\ SvIdle
    /\ CnIdle
    /\ BdIdle
    /\ RoIdle
    /\ SdIdle
    /\ HoIdle
    /\ PtIdle

\* One pass of the loop of EventIterator::next; a pass that dispatches is
\* where next() returns, and the following pass belongs to the next call.
IterPass ==
    /\ FindFirst(itData, {CR, LF}) # 0
    /\ LET p == LoopPass(itEvent, itData)
       IN  /\ itLine' = p.line
           /\ itEvent' = p.event
           /\ itData' = p.data
           /\ itOut' = itOut \o p.item
    /\ UNCHANGED <<itText, notIt>>

NextIter == IterPass

SpecIter == InitIter /\ [][NextIter]_vars

\* A pass has run in this step (every pass consumes a terminator).
Passed == itData' # itData

\* The text is a decimal number, with or without a plus sign before it.
IsUnsigned(v) ==
    LET ds == IF v # <<>> /\ v[1] = 43 THEN Tail(v) ELSE v
    IN  ds # <<>> /\ \A i \in 1..Len(ds) : ds[i] \in 48..57

\* C11: field update rules.  A pass over a field line changes the pending
\* Event by the field's name alone: event sets the type and id the id to the
\* value; data sets the data to the value when there was none and else
\* appends an LF and the value to it; retry sets the retry to the number the
\* value is when it is an unsigned decimal number and else changes nothing;
\* any other name changes nothing.  No field line dispatches.
C11_FieldUpdate ==
    [][ (Passed /\ itLine'.kind = "Field") =>
          LET n == itLine'.name
              v == itLine'.value
          IN  /\ itOut' = itOut
              /\ n = StrEvent => itEvent' = [itEvent EXCEPT !.type_ = Some(v)]
              /\ n = StrId => itEvent' = [itEvent EXCEPT !.id = Some(v)]
              /\ n = StrData =>
                    /\ itEvent.data = None =>
                          itEvent' = [itEvent EXCEPT !.data = Some(v)]
                    /\ itEvent.data # None =>
                          itEvent' = [itEvent EXCEPT
                                        !.data = Some(@[1] \o <<LF>> \o v)]
              /\ n = StrRetry =>
                    /\ IsUnsigned(v) =>
                          /\ itEvent'.retry # None
                          /\ Digits(itEvent'.retry[1]) =
                                (IF v[1] = 43 THEN Tail(v) ELSE v)
                          /\ itEvent' = [itEvent EXCEPT !.retry = itEvent'.retry]
                    /\ ~IsUnsigned(v) => itEvent' = itEvent
              /\ n \notin {StrEvent, StrId, StrData, StrRetry} =>
                    itEvent' = itEvent
      ]_vars

\* Three data lines, `data: x`, `data` and `data:  x`, are pending as the
\* one data "x", "", " x" joined by LF.
C11_Witness ==
    /\ itData = <<>>
    /\ itOut = <<>>
    /\ itEvent = [EventDefault EXCEPT !.data = Some(<<120, LF, LF, SP, 120>>)]

\* C12: line classification.  A line that begins with a colon is a comment:
\* the pass leaves the pending Event as it is and dispatches nothing.  Any
\* other non-empty line is a field: with a colon in it, the name is what
\* precedes the first colon and the value what follows it, less one leading
\* space when there is one; with none, the name is the line and the value
\* is empty.
C12_LineClassification ==
    [][ (Passed /\ itLine'.text # <<>>) =>
          LET t == itLine'.text
              c == FindFirst(t, {COLON})
              rest == SubSeq(t, c + 1, Len(t))
          IN  /\ t[1] = COLON =>
                    /\ itLine'.kind = "Comment"
                    /\ itEvent' = itEvent
                    /\ itOut' = itOut
              /\ t[1] # COLON =>
                    /\ itLine'.kind = "Field"
                    /\ c = 0 => itLine'.name = t /\ itLine'.value = <<>>
                    /\ c # 0 =>
                          /\ itLine'.name = SubSeq(t, 1, c - 1)
                          /\ (rest # <<>> /\ rest[1] = SP) =>
                                itLine'.value = Tail(rest)
                          /\ ~(rest # <<>> /\ rest[1] = SP) =>
                                itLine'.value = rest
      ]_vars

\* After a comment, the line `data:  x` gave the data " x" and a bare `id`
\* line the id "".
C12_Witness ==
    /\ itText = <<COLON, 99, LF>> \o StrData \o <<COLON, SP, SP, 120, LF>>
                  \o StrId \o <<LF>>
    /\ itData = <<>>
    /\ itEvent = [EventDefault EXCEPT !.data = Some(<<SP, 120>>),
                                      !.id = Some(<<>>)]

\* A field of the Event is present.
AnyFieldPresent(ev) ==
    ev.type_ # None \/ ev.data # None \/ ev.id # None \/ ev.retry # None

\* C13: dispatch rule.  A pass over a blank line dispatches the pending
\* Event and resets it when a field of it is present, and else dispatches
\* nothing; a pass over any other line dispatches nothing; so what is
\* dispatched is never the empty Event.
C13_DispatchRule ==
    [][ Passed =>
          /\ (itLine'.text = <<>> /\ AnyFieldPresent(itEvent)) =>
                /\ itOut' = Append(itOut, itEvent)
                /\ itEvent' = EventDefault
          /\ (itLine'.text = <<>> /\ ~AnyFieldPresent(itEvent)) =>
                /\ itOut' = itOut
                /\ itEvent' = itEvent
          /\ itLine'.text # <<>> => itOut' = itOut
          /\ \A i \in 1..Len(itOut') : AnyFieldPresent(itOut'[i])
      ]_vars

\* Of the text <blank>, `data`, <blank> the first blank line dispatched
\* nothing and the second the Event whose data is "".
C13_Witness ==
    /\ itText = <<LF>> \o StrData \o <<LF, LF>>
    /\ itData = <<>>
    /\ itOut = << [EventDefault EXCEPT !.data = Some(<<>>)] >>
    /\ itEvent = EventDefault

\* C18 as stated: no pass ends its line at a CR that no LF follows.
C18_BareCrKept ==
    [][ Passed => itLine'.term \in { <<LF>>, <<CR, LF>> } ]_vars

\* C18 amended: a line ends at an LF, at a CR with the LF that follows it,
\* or at a CR that no LF follows in the text; the pass takes the line and
\* that terminator off the front of the text, and the line holds no CR and
\* no LF.
C18_Terminators ==
    [][ Passed =>
          /\ itLine'.term \in { <<LF>>, <<CR, LF>>, <<CR>> }
          /\ itData = itLine'.text \o itLine'.term \o itData'
          /\ \A i \in 1..Len(itLine'.text) : itLine'.text[i] \notin {CR, LF}
          /\ itLine'.term = <<CR>> => (itData' = <<>> \/ itData'[1] # LF)
      ]_vars

\* Of the text `data:x<CR>id`, blank, the CR ended the line `data:x`, and
\* the Event dispatched has the data "x" and the id "".
C18_Witness ==
    /\ itText = StrData \o <<COLON, 120, CR>> \o StrId \o <<LF, LF>>
    /\ itData = <<>>
    /\ itOut = << [EventDefault EXCEPT !.data = Some(<<120>>),
                                       !.id = Some(<<>>)] >>

-----------------------------------------------------------------------------
(* More claims about the reader fed in chunks (SpecSse)                    *)

\* How many times the byte b occurs in s.
CountByte(s, b) == Cardinality({ i \in 1..Len(s) : s[i] = b })

RECURSIVE CountByteInData(_, _)
CountByteInData(evs, b) ==
    IF evs = <<>> THEN 0
    ELSE (IF Head(evs).data # None THEN CountByte(Head(evs).data[1], b) ELSE 0)
         + CountByteInData(Tail(evs), b)

\* C14: byte conservation.  After every call the reader carries exactly
\* the bytes fed after the last line terminator, in the order they were
\* fed: the unterminated line, then the bytes of a character not yet
\* complete.  What precedes them is complete lines, and each byte of their
\* data values (x, and the two bytes of U+0410) is once in the data of an
\* Event, dispatched or pending.
C14_ByteConservation ==
    ~failed =>
        /\ reader.suffix = SubSeq(Fed, LastTerminator(Fed) + 1, pos)
        /\ \A b \in {120, 208, 144} :
              CountByteInData(emitted \o <<reader.event>>, b)
                + CountByte(reader.suffix, b) = CountByte(Fed, b)

\* An Event has been dispatched and the reader carries the unterminated
\* line `data:` followed by the first byte of U+0410.
C14_Witness ==
    /\ ~failed
    /\ Len(emitted) >= 1
    /\ reader.suffix = StrData \o <<COLON, 208>>

\* The text with every CRLF written as LF.
RECURSIVE ToLf(_)
ToLf(s) ==
    IF s = <<>> THEN <<>>
    ELSE IF Len(s) >= 2 /\ s[1] = CR /\ s[2] = LF THEN ToLf(Tail(s))
    ELSE <<Head(s)>> \o ToLf(Tail(s))

\* C19: CRLF and LF are equivalent.  A body fed to its end, in whatever
\* chunks, has dispatched the Events that the same body written with LF
\* line endings dispatches when fed in one call.
C19_CrlfAsLf ==
    pos = Len(stream) => emitted = ParseWhole(ToLf(stream)).events

-----------------------------------------------------------------------------
(* The reader fed bodies that hold malformed UTF-8                         *)

\* Byte sequences that are not UTF-8 where they stand, or not yet: a byte
\* that never occurs in UTF-8, a continuation byte with no lead, a lead
\* followed by a byte that cannot continue it, and leads cut short.
BadBytes ==
    { <<255>>, <<144>>, <<208, 120>>, <<224, 128>>, <<208>>, <<224, 160>> }

\* A body: a beginning, one of the sequences, and what follows it.
BadStreams ==
    { pre \o bad \o post :
        pre \in { <<>>,
                  StrData \o <<COLON, 120, LF>>,
                  StrData \o <<COLON, 120, LF, LF>> },
        bad \in BadBytes,
        post \in { <<>>, <<LF>>, <<LF, LF>>, <<144, LF, LF>> } }

InitUtf8 ==
    /\ stream \in BadStreams
    /\ pos = 0
    /\ reader = EventReaderDefault
    /\ emitted = <<>>
    /\ failed = FALSE
    /\ splitChar = FALSE
    /\ RtIdle
    /\ PxIdle
    /\ StIdle
    /\ ItIdle
    /\ TnIdle
    /\ SvIdle
    /\ CnIdle
    /\ BdIdle
    /\ RoIdle
    /\ SdIdle
    /\ HoIdle
    /\ PtIdle

SpecUtf8 == InitUtf8 /\ [][NextSse]_vars

\* The bytes hold malformed UTF-8 that is not a valid sequence cut short
\* by their end.
Malformed(bytes) ==
    ValidUpTo(bytes, 1) < Len(bytes) /\ ~TruncatedTail(bytes)

\* C20: malformed UTF-8 is a terminal error.  A call whose bytes, the
\* carried suffix and then the chunk, hold malformed UTF-8 fails and
\* yields no Event.
C20_MalformedFails ==
    [][ pos' > pos =>
          (Malformed(reader.suffix \o SubSeq(stream, pos + 1, pos'))
              => failed' /\ emitted' = emitted)
      ]_vars

-----------------------------------------------------------------------------
(* More claims about the connection slot (SpecProxy)                       *)

\* The connections some send has found closed.
ObservedDead == UNION { calls[r].sawDead : r \in Reqs }

\* Request r goes out in this step, whether the response comes or an error.
Dispatches(r) == calls[r].dispatchedOn = 0 /\ calls'[r].dispatchedOn # 0

\* C15: never a request on a connection observed dead.  The slot never
\* holds a connection that a send has found closed, and a send has none in
\* hand once it has found it closed.  A request goes out on the connection
\* its send's latest liveness check found alive, which no send has found
\* closed and which is the connection in the slot.
C15_NeverSentOnDead ==
    [][ /\ connection' # None => connection'[1] \notin ObservedDead'
        /\ \A r \in Reqs :
              /\ calls'[r].cur \notin calls'[r].sawDead
              /\ Dispatches(r) =>
                    /\ calls'[r].dispatchedOn = calls[r].alive
                    /\ calls'[r].dispatchedOn \notin ObservedDead
                    /\ connection = Some(calls'[r].dispatchedOn)
                    /\ connection' = connection
      ]_vars

\* A send found the connection it took from the slot closed and a fresh one
\* alive, and the request went out on the fresh one, now in the slot.
C15_Witness ==
    \E r \in Reqs :
        /\ calls[r].took # 0
        /\ calls[r].sawDead = {calls[r].took}
        /\ calls[r].dispatchedOn \notin {0, calls[r].took}
        /\ calls[r].dispatchedOn = calls[r].alive
        /\ connection = Some(calls[r].dispatchedOn)

-----------------------------------------------------------------------------
(* serve: one ReverseProxy per accepted client connection (lib.rs,         *)
(* main.rs).  A send holds its ReverseProxy's lock from the take to the    *)
(* dispatch, so the sends of one ReverseProxy follow one another and a     *)
(* send is one step here.                                                  *)

MaxSessions == 3
MaxTransports == 4

\* One ReverseProxy serving every client connection.
SharedInstance(slots) == 1

\* make_service(): main's closure builds a Router around a new ReverseProxy
\* each time it is called.
NewInstance(slots) == Len(slots) + 1

InitServe ==
    /\ svInst = <<>>
    /\ svSlot = <<>>
    /\ svOwner = <<>>
    /\ svOpen = {}
    /\ SseIdle
    /\ RtIdle
    /\ PxIdle
    /\ StIdle
    /\ ItIdle
    /\ TnIdle
    /\ CnIdle
    /\ BdIdle
    /\ RoIdle
    /\ SdIdle
    /\ HoIdle
    /\ PtIdle

\* One round of the accept loop: a client connection is accepted and a
\* task is spawned that serves it with the service made for it.
Accept ==
    /\ Len(svInst) < MaxSessions
    /\ LET inst == NewInstance(svSlot)
       IN  /\ svInst' = Append(svInst, inst)
           /\ svSlot' = IF inst > Len(svSlot) THEN Append(svSlot, None)
                        ELSE svSlot
    /\ UNCHANGED <<svOwner, svOpen, notSv>>

\* ReverseProxy::send for a request of client connection s.  A connection
\* in the slot whose driver has not finished is put back and used.
\* Otherwise the slot is left empty and the loop connects: dead is how many
\* new transports it finds closed at the check, one after the other, and ok
\* whether the connect after them succeeds, its connection alive at the
\* check and stored, or fails and ends the send.
SessionSend(s, dead, ok) ==
    LET inst == svInst[s]
        held == svSlot[inst]
        n == Len(svOwner)
        made == dead + (IF ok THEN 1 ELSE 0)
    IN  IF held # None /\ held[1] \in svOpen
        THEN /\ dead = 0
             /\ ok
             /\ UNCHANGED <<svInst, svSlot, svOwner, svOpen, notSv>>
        ELSE /\ n + made <= MaxTransports
             /\ svOwner' = svOwner \o [k \in 1..made |-> inst]
             /\ svOpen' = IF ok THEN svOpen \cup {n + made} ELSE svOpen
             /\ svSlot' = [svSlot EXCEPT ![inst] =
                              IF ok THEN Some(n + made) ELSE None]
             /\ UNCHANGED <<svInst, notSv>>

\* The driver task of transport t finishes.
TransportCloses(t) ==
    /\ t \in svOpen
    /\ svOpen' = svOpen \ {t}
    /\ UNCHANGED <<svInst, svSlot, svOwner, notSv>>

NextServe ==
    \/ Accept
    \/ \E s \in 1..MaxSessions, dead \in {0, 1}, ok \in BOOLEAN :
          s <= Len(svInst) /\ SessionSend(s, dead, ok)
    \/ \E t \in 1..MaxTransports : TransportCloses(t)

SpecServe == InitServe /\ [][NextServe]_vars

\* The open transports that the ReverseProxy of client connection s made.
OpenOf(s) == { t \in svOpen : svOwner[t] = svInst[s] }

\* C16: one backend socket per client session.  No two client connections
\* have the same ReverseProxy; no connection is in the slots of two of
\* them, and a slot holds a connection its own ReverseProxy made; a send
\* opens a transport only when its slot is empty or holds a connection
\* whose driver has finished; and each client connection has one open
\* backend transport at most.
C16_OneSocketPerSession ==
    [][ /\ \A s1, s2 \in 1..Len(svInst') :
              s1 # s2 => svInst'[s1] # svInst'[s2]
        /\ \A i1, i2 \in 1..Len(svSlot') :
              (i1 # i2 /\ svSlot'[i1] # None) => svSlot'[i1] # svSlot'[i2]
        /\ \A i \in 1..Len(svSlot') :
              svSlot'[i] # None => svOwner'[svSlot'[i][1]] = i
        /\ \A t \in (Len(svOwner) + 1)..Len(svOwner') :
              svSlot[svOwner'[t]] = None
                \/ svSlot[svOwner'[t]][1] \notin svOpen
        /\ \A s \in 1..Len(svInst') :
              Cardinality({ t \in svOpen' : svOwner'[t] = svInst'[s] }) <= 1
      ]_vars

\* Two client connections each have their own open transport in their own
\* slot, the first one's made after the one it had before was closed.
C16_Witness ==
    /\ Len(svInst) >= 2
    /\ svSlot[svInst[1]] = Some(3)
    /\ svSlot[svInst[2]] = Some(2)
    /\ svOwner = <<1, 2, 1>>
    /\ svOpen = {2, 3}

-----------------------------------------------------------------------------
(* The CONNECT handshake with a forward proxy (http_util/proxy.rs), from   *)
(* the point where the request has been written and flushed.               *)

StrHttp11 == <<72, 84, 84, 80, 47, 49, 46, 49>>     \* HTTP/1.1
StrHttp10 == <<72, 84, 84, 80, 47, 49, 46, 48>>     \* HTTP/1.0
Str200 == <<50, 48, 48>>                            \* 200
Str407 == <<52, 48, 55>>                            \* 407
StrOk == <<SP, 79, 75>>                             \* " OK"
StrHeader == <<88, COLON, SP, 121>>                 \* X: y

\* What a forward proxy answers: a status line, with or without a reason,
\* no header or one, and the blank line, or the end of the stream before it.
TunnelResponses ==
    { proto \o <<SP>> \o status \o reason \o eol \o header \o tail :
        proto \in {StrHttp11, StrHttp10},
        status \in {Str200, Str407},
        reason \in {<<>>, StrOk},
        eol \in Eols,
        header \in {<<>>, StrHeader \o <<LF>>, StrHeader \o <<CR, LF>>},
        tail \in {<<>>, <<LF>>, <<CR, LF>>} }

InitTunnel ==
    /\ tnRes \in TunnelResponses
    /\ tnPos = 0
    /\ tnLf = 0
    /\ tnState = "reading"
    /\ SseIdle
    /\ RtIdle
    /\ PxIdle
    /\ StIdle
    /\ ItIdle
    /\ SvIdle
    /\ CnIdle
    /\ BdIdle
    /\ RoIdle
    /\ SdIdle
    /\ HoIdle
    /\ PtIdle

\* One round of `while lf_count < 2`: read_u8 fails at the end of the
\* stream; an LF is counted; after the first LF any byte other than CR and
\* LF is refused.
ReadByte ==
    /\ tnState = "reading"
    /\ IF tnPos = Len(tnRes)
       THEN /\ tnState' = "io error"
            /\ UNCHANGED <<tnPos, tnLf>>
       ELSE LET b == tnRes[tnPos + 1]
            IN  /\ tnPos' = tnPos + 1
                /\ IF b = LF
                   THEN /\ tnLf' = tnLf + 1
                        /\ tnState' = IF tnLf + 1 < 2 THEN "reading"
                                      ELSE "checking"
                   ELSE /\ tnLf' = tnLf
                        /\ tnState' = IF tnLf # 0 /\ b # CR
                                      THEN "expected two newlines"
                                      ELSE "reading"
    /\ UNCHANGED <<tnRes, notTn>>

\* u8::is_ascii_whitespace
IsAsciiWhitespace(b) == b \in {9, LF, 12, CR, SP}

\* str::split_ascii_whitespace: the maximal runs of other bytes, in order.
RECURSIVE SplitAsciiWhitespace(_)
SplitAsciiWhitespace(t) ==
    IF t = <<>> THEN <<>>
    ELSE IF IsAsciiWhitespace(t[1]) THEN SplitAsciiWhitespace(Tail(t))
    ELSE LET e == IF \E i \in 1..Len(t) : IsAsciiWhitespace(t[i])
                  THEN CHOOSE i \in 1..Len(t) :
                          /\ IsAsciiWhitespace(t[i])
                          /\ \A j \in 1..(i - 1) : ~IsAsciiWhitespace(t[j])
                  ELSE Len(t) + 1
         IN  <<SubSeq(t, 1, e - 1)>> \o SplitAsciiWhitespace(SubSeq(t, e, Len(t)))

\* The checks on what was read, after the loop.
CheckStatus ==
    /\ tnState = "checking"
    /\ LET iter == SplitAsciiWhitespace(SubSeq(tnRes, 1, tnPos))
       IN  tnState' =
             IF iter = <<>> \/ iter[1] # StrHttp11
             THEN "unsupported response protocol"
             ELSE IF Len(iter) < 2 \/ iter[2] # Str200
             THEN "unsuccessful response status"
             ELSE "ok"
    /\ UNCHANGED <<tnRes, tnPos, tnLf, notTn>>

NextTunnel == ReadByte \/ CheckStatus

SpecTunnel == InitTunnel /\ [][NextTunnel]_vars

\* The handshake has returned.
Returned == tnState \notin {"reading", "checking"}

\* res[k] ends a line terminator, LF or CRLF, and j is where it begins.
TerminatorAt(res, j, k) ==
    /\ k <= Len(res)
    /\ res[k] = LF
    /\ j = k \/ (j = k - 1 /\ j >= 1 /\ res[j] = CR)

\* Two line terminators, one right after the other, are in res.
TwoTerminators(res) ==
    \E j1, k1, j2, k2 \in 1..Len(res) :
        TerminatorAt(res, j1, k1) /\ j2 = k1 + 1 /\ TerminatorAt(res, j2, k2)

\* The first line of res, without its terminator.
StatusLine(res) ==
    LET e == FindFirst(res, {CR, LF})
    IN  IF e = 0 THEN res ELSE SubSeq(res, 1, e - 1)

\* The status line is `HTTP/1.1 200 ...`.
StatusLineOk(res) ==
    LET ws == SplitAsciiWhitespace(StatusLine(res))
    IN  Len(ws) >= 2 /\ ws[1] = StrHttp11 /\ ws[2] = Str200

\* C17: the outcome of the handshake.  A handshake that has returned has
\* succeeded exactly when the proxy's answer has the status line
\* `HTTP/1.1 200 ...` and goes on to two consecutive line terminators; it
\* has failed only on another protocol, another status, or the end of the
\* stream before them.
C17_HandshakeOutcome ==
    Returned => (tnState = "ok" <=> (StatusLineOk(tnRes) /\ TwoTerminators(tnRes)))

-----------------------------------------------------------------------------
(* Claims about Event::write_to, over the Events of SpecRt *)

\* The segments of s between its LFs, in order.
SegmentStarts(s) == {1} \cup { i + 1 : i \in { j \in 1..Len(s) : s[j] = LF } }
SegmentFrom(s, a) ==
    LET ends == { i \in a..Len(s) : s[i] = LF } \cup { Len(s) + 1 }
    IN  SubSeq(s, a, (CHOOSE e \in ends : \A f \in ends : e <= f) - 1)
Segments(s) ==
    [k \in 1..Cardinality(SegmentStarts(s)) |->
        SegmentFrom(s, CHOOSE a \in SegmentStarts(s) :
                          Cardinality({ b \in SegmentStarts(s) : b <= a }) = k)]

RECURSIVE Flatten(_)
Flatten(ls) == IF ls = <<>> THEN <<>> ELSE Head(ls) \o Flatten(Tail(ls))

\* The line of a field as the claim words it, with its LF.
WireLine(name, v) ==
    IF v = <<>> THEN name \o <<LF>> ELSE name \o <<COLON, SP>> \o v \o <<LF>>

\* C21: emission format of Event::write_to.  The bytes written are, in this
\* order: an `event: <type>` line when type is present, a `data: <segment>`
\* line per LF-separated segment of data when data is present, an `id: <id>`
\* line when id is present, a `retry: <milliseconds>` line when retry is
\* present, then a blank line; every line ends with LF, an absent field has
\* no line, and an empty value (or segment) leaves the bare field name.
C21_EmissionFormat ==
    rtStage # "start" =>
        rtWire =
            (IF rtEvent.type_ # None
             THEN WireLine(<<101, 118, 101, 110, 116>>, rtEvent.type_[1]) ELSE <<>>)
            \o (IF rtEvent.data # None
                THEN Flatten([k \in 1..Len(Segments(rtEvent.data[1])) |->
                        WireLine(<<100, 97, 116, 97>>, Segments(rtEvent.data[1])[k])])
                ELSE <<>>)
            \o (IF rtEvent.id # None
                THEN WireLine(<<105, 100>>, rtEvent.id[1]) ELSE <<>>)
            \o (CASE rtEvent.retry = None -> <<>>
                  [] rtEvent.retry = Some(0) ->
                        <<114, 101, 116, 114, 121, COLON, SP, 48, LF>>
                  [] rtEvent.retry = Some(15) ->
                        <<114, 101, 116, 114, 121, COLON, SP, 49, 53, LF>>)
            \o <<LF>>

\* An Event with an empty type, a data of two segments whose second is empty,
\* no id and a retry has been written.
C21_Witness ==
    /\ rtStage = "written"
    /\ rtEvent.type_ = Some(<<>>)
    /\ rtEvent.data = Some(<<120, LF>>)
    /\ rtEvent.id = None
    /\ rtEvent.retry = Some(15)
    /\ rtWire = <<101, 118, 101, 110, 116, LF,
                  100, 97, 116, 97, COLON, SP, 120, LF,
                  100, 97, 116, 97, LF,
                  114, 101, 116, 114, 121, COLON, SP, 49, 53, LF,
                  LF>>

-----------------------------------------------------------------------------
(* More claims about ReverseProxy::send *)

\* The connect of request r fails in this step.
ConnectFails(r) == calls[r].pc = "connect" /\ calls'[r].pc = "done"

\* C22: a connect failure is surfaced, not retried.  The step in which the
\* connect of a send fails ends the call with that error: it establishes no
\* transport and dispatches nothing, it leaves the slot empty and releases
\* the lock the send held; a call that ended so makes no step any more; and
\* a send that takes from the empty slot goes on to a connect of its own.
C22_ConnectFailure ==
    [][\A r \in Reqs :
          /\ ConnectFails(r) =>
                /\ lock = Some(r) /\ lock' = None
                /\ connection = None /\ connection' = None
                /\ conns' = conns
                /\ calls'[r].connects = calls[r].connects
                /\ calls'[r].dispatchedOn = 0
                /\ calls'[r].failedAt = "connect"
                /\ calls'[r].result[1].res[1].body = "connect failed"
          /\ calls[r].failedAt = "connect" => calls'[r] = calls[r]
          /\ (calls[r].pc = "loop" /\ calls'[r].pc # "loop" /\ connection = None)
                => calls'[r].pc = "connect"]_vars

\* One request found the slot empty and its connect failed; the other
\* request, which can only have taken the lock after it, found the slot empty
\* too, connected and was dispatched on the first transport.
C22_Witness ==
    \E r, q \in Reqs :
        /\ calls[r].failedAt = "connect"
        /\ calls[r].took = 0
        /\ calls[r].connects = 0
        /\ calls[q].dispatchedOn = 1
        /\ calls[q].took = 0
        /\ calls[q].connects = 1
        /\ conns = 1

\* Request r is inside send, between the lock and the return of the dispatch.
InSend(r) == calls[r].pc \in {"loop", "connect", "check", "dispatch"}

\* C23: lock scope.  At most one request is between the acquisition of the
\* lock and the return of its dispatch call, and it is the holder of the
\* lock; whoever is outside that stretch (converting, waiting for the lock,
\* reading or streaming a response, done) does not hold it, so the lock is
\* free once the dispatch call has returned or the send has failed.
C23_LockScope ==
    /\ \A r, q \in Reqs : (InSend(r) /\ InSend(q)) => r = q
    /\ \A r \in Reqs : InSend(r) <=> lock = Some(r)
    /\ \A r, q \in Reqs :
          (calls[r].pc = "connect" /\ calls[q].pc = "connect") => r = q

\* One request's response is being streamed to the client while the other
\* request holds the lock and is being dispatched on the same connection.
C23_Witness ==
    \E r, q \in Reqs :
        /\ calls[r].pc = "convert_response"
        /\ calls[r].streaming
        /\ calls[r].status = 200
        /\ calls[q].pc = "dispatch"
        /\ lock = Some(q)
        /\ calls[q].cur = calls[r].dispatchedOn

-----------------------------------------------------------------------------
(* Establishing an Outbound Connection: the connect arm of send, then      *)
(* Connection::connect / connect_through_proxy / connect_raw_socket /      *)
(* connect_stream, one step per await.  A URL is [scheme, host, port], each *)
(* an Option; cnTrace lists what was opened and written on the socket.      *)

Url(scheme, host, port) == [scheme |-> scheme, host |-> host, port |-> port]

\* url_to_host_and_port: None for an error, else Some(<<host, port>>).
UrlToHostAndPort(url) ==
    IF url.host = None \/ url.scheme = None THEN None
    ELSE CASE url.scheme[1] = "http" ->
                Some(<<url.host[1], IF url.port # None THEN url.port[1] ELSE 80>>)
           [] url.scheme[1] = "https" ->
                Some(<<url.host[1], IF url.port # None THEN url.port[1] ELSE 443>>)
           [] OTHER -> None

\* The server URLs main accepts, and the forward-proxy URLs it is given:
\* none, one with a scheme, and one without (`proxy:3128`).
ServerUrls ==
    { Url(Some("http"), Some("localhost"), Some(8080)),
      Url(Some("http"), Some("localhost"), None),
      Url(Some("https"), Some("api.openai.com"), None) }

ProxyUrls ==
    { None,
      Some(Url(Some("http"), Some("proxy"), Some(3128))),
      Some(Url(None, Some("proxy"), Some(3128))) }

InitConnect ==
    /\ cnUrl \in ServerUrls
    /\ cnProxy \in ProxyUrls
    /\ cnPc = "start"
    /\ cnTrace = <<>>
    /\ tnRes \in IF cnProxy # None /\ UrlToHostAndPort(cnProxy[1]) # None
                 THEN TunnelResponses ELSE { <<>> }
    /\ tnPos = 0
    /\ tnLf = 0
    /\ tnState = "reading"
    /\ SseIdle
    /\ RtIdle
    /\ PxIdle
    /\ StIdle
    /\ ItIdle
    /\ SvIdle
    /\ BdIdle
    /\ RoIdle
    /\ SdIdle
    /\ HoIdle
    /\ PtIdle

\* The URL whose host and port the TCP connection goes to, always the backend.
TcpTargetBackend(proxy, url) == url

\* The URL whose host and port the TCP connection goes to.
TcpTarget(proxy, url) == IF proxy # None THEN proxy[1] ELSE url

\* TcpStream::connect(url_to_host_and_port(..)?).await?
TcpConnect(ok) ==
    /\ cnPc = "start"
    /\ LET addr == UrlToHostAndPort(TcpTarget(cnProxy, cnUrl))
       IN  IF addr = None \/ ~ok
           THEN cnPc' = "failed" /\ UNCHANGED cnTrace
           ELSE /\ cnTrace' = Append(cnTrace, [op |-> "tcp", to |-> addr[1]])
                /\ cnPc' = IF cnProxy # None THEN "tunnel" ELSE "raw_socket"
    /\ UNCHANGED <<cnUrl, cnProxy, tnVars, notCn>>

\* handshake: the CONNECT request is written and flushed.
WriteConnect(ok) ==
    /\ cnPc = "tunnel"
    /\ LET dst == UrlToHostAndPort(cnUrl)
       IN  IF dst = None \/ ~ok
           THEN cnPc' = "failed" /\ UNCHANGED cnTrace
           ELSE /\ cnTrace' = Append(cnTrace, [op |-> "CONNECT", to |-> dst[1]])
                /\ cnPc' = "handshake"
    /\ UNCHANGED <<cnUrl, cnProxy, tnVars, notCn>>

\* handshake reads and checks the answer (the steps of SpecTunnel) ...
HandshakeStep == cnPc = "handshake" /\ (ReadByte \/ CheckStatus)

\* ... and returns: `?` ends the connect on an error.
HandshakeReturns ==
    /\ cnPc = "handshake"
    /\ tnState \notin {"reading", "checking"}
    /\ cnPc' = IF tnState = "ok" THEN "raw_socket" ELSE "failed"
    /\ UNCHANGED <<cnUrl, cnProxy, cnTrace, tnVars, notCn>>

\* connect_raw_socket: TLS for https, the bare stream for http.
RawSocket(ok) ==
    /\ cnPc = "raw_socket"
    /\ LET addr == UrlToHostAndPort(cnUrl)
       IN  IF addr = None THEN cnPc' = "failed" /\ UNCHANGED cnTrace
           ELSE IF cnUrl.scheme[1] = "http"
           THEN cnPc' = "connect_stream" /\ UNCHANGED cnTrace
           ELSE IF ok
           THEN /\ cnTrace' = Append(cnTrace, [op |-> "tls", to |-> addr[1]])
                /\ cnPc' = "connect_stream"
           ELSE cnPc' = "failed" /\ UNCHANGED cnTrace
    /\ UNCHANGED <<cnUrl, cnProxy, tnVars, notCn>>

\* connect_stream: the hyper handshake, then the driver task is spawned and
\* the Connection exists.
ConnectStream(ok) ==
    /\ cnPc = "connect_stream"
    /\ IF ok
       THEN /\ cnTrace' = Append(cnTrace,
                    [op |-> "http", to |-> UrlToHostAndPort(cnUrl)[1]])
            /\ cnPc' = "connected"
       ELSE cnPc' = "failed" /\ UNCHANGED cnTrace
    /\ UNCHANGED <<cnUrl, cnProxy, tnVars, notCn>>

\* send: the connection is put in the slot and the request dispatched on it.
SendRequest ==
    /\ cnPc = "connected"
    /\ cnTrace' = Append(cnTrace,
            [op |-> "request", to |-> UrlToHostAndPort(cnUrl)[1]])
    /\ cnPc' = "dispatched"
    /\ UNCHANGED <<cnUrl, cnProxy, tnVars, notCn>>

NextConnect ==
    \/ \E ok \in BOOLEAN : TcpConnect(ok)
    \/ \E ok \in BOOLEAN : WriteConnect(ok)
    \/ HandshakeStep
    \/ HandshakeReturns
    \/ \E ok \in BOOLEAN : RawSocket(ok)
    \/ \E ok \in BOOLEAN : ConnectStream(ok)
    \/ SendRequest

SpecConnect == InitConnect /\ [][NextConnect]_vars

\* The ops written so far, and where the first of a kind stands (0: none).
Ops == [i \in 1..Len(cnTrace) |-> cnTrace[i].op]
FirstOp(op) == FindFirst(Ops, {op})

\* C24: tunnel ordering.  With a forward proxy configured the TCP connection
\* goes to the proxy's host and port, the CONNECT written on it names the
\* backend's host and port, and TLS, the HTTP handshake and the request are
\* written only once the CONNECT handshake has returned successfully; when
\* the handshake fails the connect ends without a Connection and without a
\* request.  With no forward proxy no CONNECT is written and the TCP
\* connection goes to the backend.
C24_TunnelOrdering ==
    /\ cnTrace # <<>> =>
          /\ cnTrace[1].op = "tcp"
          /\ cnTrace[1].to = IF cnProxy # None
                             THEN <<"proxy", 3128>>
                             ELSE <<cnUrl.host[1],
                                    IF cnUrl.port # None THEN cnUrl.port[1]
                                    ELSE IF cnUrl.scheme[1] = "https" THEN 443
                                    ELSE 80>>
    /\ cnProxy # None =>
          /\ Len(cnTrace) >= 2 =>
                /\ cnTrace[2].op = "CONNECT"
                /\ cnTrace[2].to[1] = cnUrl.host[1]
                /\ cnTrace[2].to[2] \in {80, 443, 8080}
                /\ cnTrace[2].to[2] = 8080 <=> cnUrl.port = Some(8080)
                /\ cnTrace[2].to[2] = 443 <=> cnUrl.scheme = Some("https")
          /\ Len(cnTrace) >= 3 => tnState = "ok"
          /\ (tnState \notin {"reading", "checking", "ok"}
              /\ cnPc # "handshake") =>
                cnPc = "failed" /\ Len(cnTrace) = 2
    /\ cnProxy = None =>
          /\ FirstOp("CONNECT") = 0
          /\ tnPos = 0
    /\ cnPc \in {"connected", "dispatched"} => FirstOp("http") # 0
    /\ cnPc = "failed" => FirstOp("request") = 0

\* Through a forward proxy that answered `HTTP/1.1 200 OK` and a blank line,
\* a request has gone out to an https backend: TCP to the proxy, CONNECT to
\* the backend's port 443, TLS, the HTTP handshake, the request.
C24_Witness ==
    /\ cnPc = "dispatched"
    /\ cnProxy # None
    /\ tnRes = StrHttp11 \o <<SP>> \o Str200 \o StrOk \o <<CR, LF, CR, LF>>
    /\ Ops = <<"tcp", "CONNECT", "tls", "http", "request">>
    /\ cnTrace[1].to = <<"proxy", 3128>>
    /\ cnTrace[2].to = <<"api.openai.com", 443>>

-----------------------------------------------------------------------------
(* The streamed responses of one ReverseProxy, frame by frame: the closure *)
(* of convert_response with the EventReader it owns (openai/proxy.rs:298-  *)
(* 346).  The frames are bytes; the Events written to a frame's output are  *)
(* kept as Events, in the order they are written.                           *)

MaxFrames == 3

StrDone == <<91, 68, 79, 78, 69, 93>>                       \* [DONE]
StrNoChoices == <<123, 125>>                                \* {}
StrChunk ==                                                 \* {"choices":[]}
    <<123, 34, 99, 104, 111, 105, 99, 101, 115, 34, 58, 91, 93, 125>>

DataLine(v) == StrData \o <<COLON, SP>> \o v \o <<LF>>

\* The frames of a backend: an Event with a chunk, the sentinel, an object
\* that is no chunk, an Event with an id only, a chunk cut in two frames, two
\* Events in one frame, a chunk and then a malformed one in one frame, a
\* malformed one and then the first half of a chunk, and bytes that are no
\* UTF-8.
BodyFrames ==
    { DataLine(StrChunk) \o <<LF>>,
      DataLine(StrDone) \o <<LF>>,
      DataLine(StrNoChoices) \o <<LF>>,
      StrId \o <<COLON, SP, 49, LF, LF>>,
      SubSeq(DataLine(StrChunk), 1, 11),
      SubSeq(DataLine(StrChunk), 12, 21) \o <<LF>>,
      DataLine(StrChunk) \o <<LF>> \o DataLine(StrDone) \o <<LF>>,
      DataLine(StrChunk) \o <<LF>> \o DataLine(StrNoChoices) \o <<LF>>,
      DataLine(StrNoChoices) \o <<LF>> \o SubSeq(DataLine(StrChunk), 1, 11),
      DataLine(<<255, 120>>) \o <<LF>> }

RECURSIVE BodiesOf(_)
BodiesOf(n) ==
    IF n = 0 THEN { <<>> }
    ELSE { Append(b, f) : b \in BodiesOf(n - 1), f \in BodyFrames }

Bodies == UNION { BodiesOf(n) : n \in 1..MaxFrames }

\* The bodies of the response that follows: a chunk and the sentinel, and
\* the second half of a chunk first.
LaterBodies ==
    { <<DataLine(StrChunk) \o <<LF>>, DataLine(StrDone) \o <<LF>>>>,
      <<SubSeq(DataLine(StrChunk), 12, 21) \o <<LF>>,
        DataLine(StrChunk) \o <<LF>>>> }

\* The text of an Event's data as the closure sees it: the sentinel, the
\* text of a JSON object (a chunk without choices, an object without a
\* choices member), or a text that is no JSON.
TextOfBytes(bytes) ==
    IF bytes = StrDone THEN DONE
    ELSE IF bytes = StrChunk
    THEN [text |-> "{...}", json |-> Some([choices |-> Some(<<>>), model |-> None])]
    ELSE IF bytes = StrNoChoices
    THEN [text |-> "{...}", json |-> Some([choices |-> None, model |-> None])]
    ELSE [text |-> "oops", json |-> None]

EventOfBytes(ev) ==
    [ev EXCEPT !.data = IF ev.data = None THEN None
                        ELSE Some(TextOfBytes(ev.data[1]))]

\* event.write_to(&mut output), with the Event put in front of the output.
OutputWriteFront(out, ev) == <<ev>> \o out

\* event.write_to(&mut output)
OutputWrite(out, ev) == Append(out, ev)

\* The for loop of the closure over the iterator: [kind, events, event,
\* data], kind "err" when a `?` returned, event and data what the iterator
\* held when it was dropped.
RECURSIVE ClosureLoop(_, _, _)
ClosureLoop(ev, data, out) ==
    CHOOSE res \in
        { IF r.item = None
          THEN [kind |-> "data", events |-> out, event |-> r.event, data |-> r.data]
          ELSE IF ConvertEvent(EventOfBytes(r.item[1])).kind = "err"
          THEN [kind |-> "err", events |-> <<>>, event |-> r.event, data |-> r.data]
          ELSE ClosureLoop(r.event, r.data,
                   IF ConvertEvent(EventOfBytes(r.item[1])).kind = "skip" THEN out
                   ELSE OutputWrite(out, ConvertEvent(EventOfBytes(r.item[1])).event))
          : r \in { EventIteratorNext(ev, data) } } : TRUE

\* The closure on one data frame: [kind, events, reader]
ClosureFrame(rd, input) ==
    LET bytes == NextEventsInput(rd, input)
        ch == Utf8FirstChunk(bytes)
    IN  IF DecodeFails(ch, bytes)
        THEN [kind |-> "err", events |-> <<>>, reader |-> [rd EXCEPT !.suffix = <<>>]]
        ELSE LET taken == [event |-> EventDefault, suffix |-> CarryOver(ch)]
                 l == ClosureLoop(rd.event, ch.valid, <<>>)
             IN  [kind |-> l.kind, events |-> l.events,
                  reader |-> DropIterator(taken, l.event, l.data)]

\* The reader a response keeps from the response before it.
ReaderKept(rd) == rd

\* let mut event_reader = EventReader::default();
ReaderOfResponse(rd) == EventReaderDefault

InitBody ==
    /\ bdBodies \in { <<b, l>> : b \in Bodies, l \in LaterBodies }
    /\ bdCur = 0
    /\ bdPos = 0
    /\ bdReader = EventReaderDefault
    /\ bdOut = <<<<>>, <<>>>>
    /\ bdEnd = <<"open", "open">>
    /\ cfg = MainConfig("localhost", None, None)
    /\ connection = Some(1)
    /\ lock = None
    /\ conns = 1
    /\ finished = {}
    /\ calls = [r \in Reqs |-> CallDefault]
    /\ SseIdle
    /\ RtIdle
    /\ StIdle
    /\ ItIdle
    /\ TnIdle
    /\ SvIdle
    /\ CnIdle
    /\ RoIdle
    /\ SdIdle
    /\ HoIdle
    /\ PtIdle

\* convert_response is called for the next streamed response, once the
\* body before it has ended or failed.
StartResponse ==
    /\ bdCur < Len(bdBodies)
    /\ bdCur # 0 => bdEnd[bdCur] # "open"
    /\ bdCur' = bdCur + 1
    /\ bdPos' = 0
    /\ bdReader' = ReaderOfResponse(bdReader)
    /\ UNCHANGED <<bdBodies, bdOut, bdEnd, notBd>>

\* The body is polled and the closure maps the next data frame; an Err item
\* ends the body.
TakeFrame ==
    /\ bdCur # 0
    /\ bdEnd[bdCur] = "open"
    /\ bdPos < Len(bdBodies[bdCur])
    /\ LET f == ClosureFrame(bdReader, bdBodies[bdCur][bdPos + 1])
       IN  /\ bdReader' = f.reader
           /\ bdOut' = [bdOut EXCEPT ![bdCur] =
                            Append(@, [kind |-> f.kind, events |-> f.events])]
           /\ bdEnd' = [bdEnd EXCEPT ![bdCur] =
                            IF f.kind = "err" THEN "error" ELSE "open"]
    /\ bdPos' = bdPos + 1
    /\ UNCHANGED <<bdBodies, bdCur, notBd>>

\* The backend's body is at its end.
EndOfBody ==
    /\ bdCur # 0
    /\ bdEnd[bdCur] = "open"
    /\ bdPos = Len(bdBodies[bdCur])
    /\ bdEnd' = [bdEnd EXCEPT ![bdCur] = "end"]
    /\ UNCHANGED <<bdBodies, bdCur, bdPos, bdReader, bdOut, notBd>>

NextBody == StartResponse \/ TakeFrame \/ EndOfBody

SpecBody == InitBody /\ [][NextBody]_vars

\* What the closure of a response that starts with reader rd returns for
\* the first k frames of body, as long as none is an Err.
RECURSIVE RunFrames(_, _, _)
RunFrames(rd, body, k) ==
    IF k = 0 \/ body = <<>> THEN <<>>
    ELSE CHOOSE out \in
            { <<[kind |-> f.kind, events |-> f.events]>>
              \o (IF f.kind = "err" THEN <<>>
                  ELSE RunFrames(f.reader, Tail(body), k - 1))
              : f \in { ClosureFrame(rd, Head(body)) } } : TRUE

\* C25: codec errors are local to one response stream.  A frame that is no
\* UTF-8, or that holds an Event whose data is no chunk, makes the closure
\* return an error, which is the last item of that response; its step and
\* every other step of a body leave the configuration and the connection
\* slot as they are; and what a response puts out is what its own frames
\* give with a fresh EventReader, whatever the response before it did.
C25_CodecErrorLocal ==
    [][/\ cfg' = cfg /\ connection' = connection
       /\ lock' = lock /\ finished' = finished
       /\ \A i \in 1..Len(bdOut) :
             /\ bdEnd[i] = "error" => bdOut'[i] = bdOut[i] /\ bdEnd'[i] = "error"
             /\ \A k \in 1..Len(bdOut'[i]) :
                   bdOut'[i][k].kind = "err" =>
                       k = Len(bdOut'[i]) /\ bdEnd'[i] = "error"
             /\ bdOut'[i] = RunFrames(EventReaderDefault, bdBodies[i],
                                      Len(bdOut'[i]))
      ]_vars

\* The first response failed on an Event whose data is `{}`, with the first
\* half of a chunk left unread behind it; the response after it, whose body
\* begins with the second half of a chunk, wrote nothing for that frame and
\* one chunk for the next, and ended.
C25_Witness ==
    /\ bdCur = 2
    /\ bdEnd = <<"error", "end">>
    /\ bdBodies[1] = <<DataLine(StrNoChoices) \o <<LF>>
                       \o SubSeq(DataLine(StrChunk), 1, 11)>>
    /\ bdOut[1] = <<[kind |-> "err", events |-> <<>>]>>
    /\ Len(bdOut[2]) = 2
    /\ bdOut[2][1] = [kind |-> "data", events |-> <<>>]
    /\ Len(bdOut[2][2].events) = 1
    /\ connection = Some(1)

-----------------------------------------------------------------------------
(* convert_request over the URIs and model names of a client                *)

\* Requests with and without a query, on the completion path and beside it,
\* naming one model or another.
HeadInbound ==
    { [Inbound(pth, TRUE, <<UserHi>>, st) EXCEPT
            !.uri.query = q, !.body.model = Some(m)] :
        pth \in {PathCompletions, PathV1Completions},
        q \in {None, Some("x=1"), Some("")},
        m \in {"m", "gpt-4", ""},
        st \in {None, Some(TRUE)} }

\* The configurations of main, and a llama.cpp-style one whose model was set
\* with the builder.
HeadConfigs ==
    Configs \cup { [MainConfig("localhost", None, None) EXCEPT !.model = "llama-3"] }

InitHead ==
    /\ cfg \in HeadConfigs
    /\ connection = None
    /\ lock = None
    /\ conns = 0
    /\ finished = {}
    /\ calls = [r \in Reqs |-> CallDefault]
    /\ SseIdle
    /\ RtIdle
    /\ StIdle
    /\ ItIdle
    /\ TnIdle
    /\ SvIdle
    /\ CnIdle
    /\ BdIdle
    /\ RoIdle
    /\ SdIdle
    /\ HoIdle
    /\ PtIdle

NextHead ==
    \/ \E req \in HeadInbound : Call(1, req) /\ UNCHANGED notPx
    \/ ConvertRequestStep(1) /\ UNCHANGED notPx

SpecHead == InitHead /\ [][NextHead]_vars

\* C26: query preserved.  The outgoing request of an accepted request has
\* the backend's completion path and the query the inbound URI came with.
C26_QueryPreserved ==
    calls[1].out # None =>
        /\ calls[1].out[1].uri.path = BackendPath(cfg.kind)
        /\ calls[1].out[1].uri.query = calls[1].inbound[1].uri.query

\* C27: the outgoing model field.  For an OpenAI-style backend it is the
\* configured model name; for a llama.cpp-style backend it is the configured
\* override, and the client's model when the override is empty.
C27_ModelField ==
    calls[1].out # None =>
        calls[1].out[1].body.model =
            IF cfg.kind = "OpenAi" THEN cfg.model
            ELSE IF cfg.model # "" THEN cfg.model
            ELSE calls[1].inbound[1].body.model[1]

-----------------------------------------------------------------------------
(* More claims about the frames of a streamed response *)

\* C28: [DONE] pass-through.  In a frame that converts, an Event whose data
\* is the sentinel [DONE] is written as it came: same type, data, id and
\* retry.
C28_DonePassThrough ==
    evOut.kind = "data" =>
        \A k \in 1..Len(WithData) :
            WithData[k].data[1] = DONE => evOut.events[k] = WithData[k]

-----------------------------------------------------------------------------
(* More claims about the streamed responses of SpecBody *)

\* The EventReader after the first k frames of body, fed one frame per call,
\* and the Events it dispatches in the call for frame k.
RECURSIVE ReaderAfter(_, _)
ReaderAfter(body, k) ==
    IF k = 0 THEN EventReaderDefault
    ELSE NextEventsAll(ReaderAfter(body, k - 1), body[k]).reader

DispatchedIn(body, k) == NextEventsAll(ReaderAfter(body, k - 1), body[k]).events

\* What the closure writes for a dispatched Event that has data.
Transformed(ev) == ConvertEvent(EventOfBytes(ev)).event

\* C29: streaming order.  For each frame taken from a response's body the
\* closure has returned one item, in the order of the frames; the item of a
\* frame that converts holds, in the order of their dispatch, one written
\* Event for each Event with data that the EventReader dispatched in the
\* call for that frame: none of another frame, none twice, none left out.
C29_StreamingOrder ==
    /\ bdCur # 0 => Len(bdOut[bdCur]) = bdPos
    /\ \A i \in 1..Len(bdOut) :
          \A k \in 1..Len(bdOut[i]) :
              bdOut[i][k].kind = "data" =>
                  LET sent == SelectSeq(DispatchedIn(bdBodies[i], k),
                                        LAMBDA e : e.data # None)
                  IN  bdOut[i][k].events =
                          [j \in 1..Len(sent) |-> Transformed(sent[j])]

\* A response of three frames: the first half of a chunk, for which nothing
\* was written; its second half, for which the chunk was written; a chunk
\* and the sentinel, written in that order.
C29_Witness ==
    /\ bdCur = 1
    /\ bdPos = 3
    /\ bdBodies[1][1] = SubSeq(DataLine(StrChunk), 1, 11)
    /\ Len(bdOut[1]) = 3
    /\ bdOut[1][1] = [kind |-> "data", events |-> <<>>]
    /\ Len(bdOut[1][2].events) = 1
    /\ bdOut[1][2].events[1].data[1] # DONE
    /\ Len(bdOut[1][3].events) = 2
    /\ bdOut[1][3].events[1] = bdOut[1][2].events[1]
    /\ bdOut[1][3].events[2].data = Some(DONE)


-----------------------------------------------------------------------------
(* Router (service.rs) and the router main builds.  A path is the sequence *)
(* of its pieces; the pieces used here ("/chat", "/completions", "/x",     *)
(* "X", "/v1", "/index.html") are such that none is the beginning of       *)
(* another, so one path's text begins with another's exactly when its      *)
(* pieces begin with the other's pieces.                                   *)

MaxRouted == 2

\* str::starts_with of the request's path and a route's prefix.
StartsWith(path, prefix) ==
    /\ Len(prefix) <= Len(path)
    /\ SubSeq(path, 1, Len(prefix)) = prefix

\* Router::new(default)
RouterNew(default) == [routes |-> <<>>, default |-> default]

\* Router::push(prefix, service)
RouterPush(router, prefix, service) ==
    [router EXCEPT !.routes = Append(@, [prefix |-> prefix, service |-> service])]

\* Option<FileServer> as a service: Some calls the FileServer, None Nothing.
OptionService(file_server) ==
    IF file_server # None THEN file_server[1] ELSE "Nothing"

\* The router of main: the file server by default, the ReverseProxy under
\* "/chat/completions".
MainRouter(file_server) ==
    RouterPush(RouterNew(OptionService(file_server)),
               PathCompletions, "ReverseProxy")

\* Routers main builds, and routers with two routes in both orders.
Routers ==
    { MainRouter(fs) : fs \in {None, Some("FileServer")} }
    \cup { RouterPush(RouterPush(RouterNew("FileServer"), p1, "First"), p2, "Second") :
           p1 \in {<<"/chat">>, PathCompletions},
           p2 \in {<<"/chat">>, PathCompletions} }

\* Paths of requests.
RouterPaths ==
    { PathCompletions,
      PathCompletions \o <<"/x">>,
      PathCompletions \o <<"X">>,
      <<"/chat">>,
      <<"/chat", "/x">>,
      <<"/index.html">>,
      <<"/x">>,
      PathV1Completions }

\* The loop of Router::call: the service of the first route from index i on
\* whose prefix the path starts with, the default when there is none.
RECURSIVE RouteFrom(_, _, _)
RouteFrom(router, path, i) ==
    IF i > Len(router.routes) THEN router.default
    ELSE IF StartsWith(path, router.routes[i].prefix)
         THEN router.routes[i].service
         ELSE RouteFrom(router, path, i + 1)

\* The status the called service answers with: Nothing a 404, the FileServer
\* a 200 with the file or a 404, the ReverseProxy a 500 for a path other
\* than "/chat/completions" and otherwise what forwarding the request gives.
ServiceStatus(service, path, found, forwarded) ==
    CASE service = "Nothing" -> 404
      [] service = "FileServer" -> IF found THEN 200 ELSE 404
      [] service = "ReverseProxy" ->
            IF path # PathCompletions THEN 500
            ELSE IF forwarded THEN 200 ELSE 500
      [] OTHER -> 200

\* Router::call for one request, with the call of the service it selects.
RouterCall(path, found, forwarded) ==
    /\ Len(roLog) < MaxRouted
    /\ LET service == RouteFrom(roRouter, path, 1)
       IN  roLog' = Append(roLog,
                [path |-> path, to |-> service,
                 status |-> ServiceStatus(service, path, found, forwarded)])
    /\ UNCHANGED roRouter
    /\ UNCHANGED notRo

InitRouter ==
    /\ roRouter \in Routers
    /\ roLog = <<>>
    /\ SseIdle
    /\ RtIdle
    /\ PxIdle
    /\ StIdle
    /\ ItIdle
    /\ TnIdle
    /\ SvIdle
    /\ CnIdle
    /\ BdIdle
    /\ SdIdle
    /\ HoIdle
    /\ PtIdle

NextRouter ==
    \E path \in RouterPaths, found \in BOOLEAN, forwarded \in BOOLEAN :
        RouterCall(path, found, forwarded)

SpecRouter == InitRouter /\ [][NextRouter]_vars

\* The router is one that main builds.
IsMainRouter ==
    /\ Len(roRouter.routes) = 1
    /\ roRouter.routes[1] = [prefix |-> PathCompletions, service |-> "ReverseProxy"]
    /\ roRouter.default \in {"FileServer", "Nothing"}

\* C30: under the router of main a request whose path is not
\* "/chat/completions" is handed to the default service (the file server,
\* answering with a file or a 404) and never to the ReverseProxy, only a
\* request on "/chat/completions" reaches the ReverseProxy, and under every
\* router the service called is that of the first route, in the order of
\* registration, whose prefix the path starts with.
C30_RoutingBoundary ==
    \A k \in 1..Len(roLog) :
        /\ IsMainRouter =>
              /\ roLog[k].path # PathCompletions =>
                    /\ roLog[k].to = roRouter.default
                    /\ roLog[k].to # "ReverseProxy"
                    /\ roLog[k].status \in {200, 404}
              /\ roLog[k].to = "ReverseProxy" <=> roLog[k].path = PathCompletions
        /\ \A i \in 1..Len(roRouter.routes) :
              (/\ StartsWith(roLog[k].path, roRouter.routes[i].prefix)
               /\ \A j \in 1..(i - 1) :
                      ~StartsWith(roLog[k].path, roRouter.routes[j].prefix))
              => roLog[k].to = roRouter.routes[i].service


-----------------------------------------------------------------------------
(* ReverseProxy::send over an unbounded run: connections are told apart    *)
(* only by whether their driver task has finished, and the count of a      *)
(* call's connects stops at MaxAttempts, which stands for that many or     *)
(* more.                                                                   *)

MaxAttempts == 3

\* forward calls send for request r (again, after an earlier call returned).
SendCalled(r) ==
    /\ sdCalls[r].pc \in {"idle", "returned"}
    /\ sdCalls' = [sdCalls EXCEPT ![r] = [SendDefault EXCEPT !.pc = "lock"]]
    /\ UNCHANGED <<sdSlot, sdLock>>
    /\ UNCHANGED notSd

\* self.connection.lock().await
SendLock(r) ==
    /\ sdCalls[r].pc = "lock"
    /\ sdLock = None
    /\ sdLock' = Some(r)
    /\ sdCalls' = [sdCalls EXCEPT ![r].pc = "loop"]
    /\ UNCHANGED sdSlot
    /\ UNCHANGED notSd

\* guard.take()
SendTake(r) ==
    /\ sdCalls[r].pc = "loop"
    /\ IF sdSlot # "none"
       THEN /\ sdCalls' = [sdCalls EXCEPT ![r].pc = "check", ![r].cur = sdSlot]
            /\ sdSlot' = "none"
       ELSE /\ sdCalls' = [sdCalls EXCEPT ![r].pc = "connect"]
            /\ UNCHANGED sdSlot
    /\ UNCHANGED sdLock
    /\ UNCHANGED notSd

\* Connection::connect / connect_through_proxy returns a connection, its
\* driver task spawned.
SendConnectOk(r) ==
    /\ sdCalls[r].pc = "connect"
    /\ sdCalls' = [sdCalls EXCEPT
            ![r].pc = "check", ![r].cur = "alive",
            ![r].connects = IF @ < MaxAttempts THEN @ + 1 ELSE @]
    /\ UNCHANGED <<sdSlot, sdLock>>
    /\ UNCHANGED notSd

\* ... or an error: `?` returns it and drops the guard.
SendConnectErr(r) ==
    /\ sdCalls[r].pc = "connect"
    /\ sdLock' = None
    /\ sdCalls' = [sdCalls EXCEPT ![r].pc = "returned", ![r].result = "error"]
    /\ UNCHANGED sdSlot
    /\ UNCHANGED notSd

\* if conn.is_closed() { continue } else { break guard.insert(conn) }
SendCheck(r) ==
    /\ sdCalls[r].pc = "check"
    /\ IF sdCalls[r].cur = "finished"
       THEN /\ sdCalls' = [sdCalls EXCEPT ![r].pc = "loop", ![r].cur = "none"]
            /\ UNCHANGED sdSlot
       ELSE /\ sdSlot' = "alive"
            /\ sdCalls' = [sdCalls EXCEPT ![r].pc = "dispatch", ![r].cur = "none"]
    /\ UNCHANGED sdLock
    /\ UNCHANGED notSd

\* conn.send(req).await returns the response head and send returns.
SendDispatchOk(r) ==
    /\ sdCalls[r].pc = "dispatch"
    /\ sdSlot = "alive"
    /\ sdLock' = None
    /\ sdCalls' = [sdCalls EXCEPT ![r].pc = "returned", ![r].result = "response"]
    /\ UNCHANGED sdSlot
    /\ UNCHANGED notSd

\* ... or a transport error, and send returns it.
SendDispatchErr(r) ==
    /\ sdCalls[r].pc = "dispatch"
    /\ sdLock' = None
    /\ sdSlot' = "finished"
    /\ sdCalls' = [sdCalls EXCEPT ![r].pc = "returned", ![r].result = "error"]
    /\ UNCHANGED notSd

\* The driver task of the connection in the slot finishes.
SendDriverFinishSlot ==
    /\ sdSlot = "alive"
    /\ sdSlot' = "finished"
    /\ UNCHANGED <<sdLock, sdCalls>>
    /\ UNCHANGED notSd

\* The driver task of the connection a send has in hand finishes before
\* the send calls is_closed.
SendDriverFinishInHand(r) ==
    /\ sdCalls[r].pc = "check"
    /\ sdCalls[r].cur = "alive"
    /\ sdCalls' = [sdCalls EXCEPT ![r].cur = "finished"]
    /\ UNCHANGED <<sdSlot, sdLock>>
    /\ UNCHANGED notSd

InitSend ==
    /\ sdSlot = "none"
    /\ sdLock = None
    /\ sdCalls = [r \in Reqs |-> SendDefault]
    /\ SseIdle
    /\ RtIdle
    /\ PxIdle
    /\ StIdle
    /\ ItIdle
    /\ TnIdle
    /\ SvIdle
    /\ CnIdle
    /\ BdIdle
    /\ RoIdle
    /\ HoIdle
    /\ PtIdle

NextSend ==
    \/ \E r \in Reqs : SendCalled(r)
    \/ \E r \in Reqs : SendLock(r)
    \/ \E r \in Reqs : SendTake(r)
    \/ \E r \in Reqs : SendConnectOk(r)
    \/ \E r \in Reqs : SendConnectErr(r)
    \/ \E r \in Reqs : SendCheck(r)
    \/ \E r \in Reqs : SendDispatchOk(r)
    \/ \E r \in Reqs : SendDispatchErr(r)
    \/ SendDriverFinishSlot
    \/ \E r \in Reqs : SendDriverFinishInHand(r)

\* The steps of send itself are taken when they can be; every connect and
\* every dispatch returns; the tokio Mutex hands the lock to its waiters in
\* turn.  Nothing obliges a client to send or a driver task to finish.
SendFairness ==
    \A r \in Reqs :
        /\ SF_vars(SendLock(r))
        /\ WF_vars(SendTake(r))
        /\ WF_vars(SendConnectOk(r) \/ SendConnectErr(r))
        /\ WF_vars(SendCheck(r))
        /\ WF_vars(SendDispatchOk(r) \/ SendDispatchErr(r))

SpecSend == InitSend /\ [][NextSend]_vars /\ SendFairness

\* C31: every call of send eventually returns, and has released the lock
\* when it has; so a request waiting for the lock gets it and returns too.
C31_SendTerminates ==
    /\ [](\A r \in Reqs : sdCalls[r].pc = "returned" => sdLock # Some(r))
    /\ \A r \in Reqs : (sdCalls[r].pc = "lock") ~> (sdCalls[r].pc = "returned")


-----------------------------------------------------------------------------
(* The stream of connect_through_proxy: the forward proxy's answer and,    *)
(* behind it, what comes through the tunnel.                               *)

\* What may already be in the stream behind the proxy's answer: nothing,
\* the start of a TLS record, text, and text that begins with a line end.
TunnelPayloads == { <<>>, <<22, 3>>, <<LF, 72>>, <<CR, LF, 72>> }

\* A reader with a buffer of its own has taken everything there was.
StreamRestBuffered(res, taken) == <<>>

\* The stream after its first bytes were taken with read_u8, one byte each.
StreamRest(res, taken) == SubSeq(res, taken + 1, Len(res))

InitHandOver ==
    /\ \E head \in TunnelResponses, payload \in TunnelPayloads :
          /\ tnRes = head \o payload
          /\ hoHead = Len(head)
    /\ hoUnread = None
    /\ tnPos = 0
    /\ tnLf = 0
    /\ tnState = "reading"
    /\ SseIdle
    /\ RtIdle
    /\ PxIdle
    /\ StIdle
    /\ ItIdle
    /\ SvIdle
    /\ CnIdle
    /\ BdIdle
    /\ RoIdle
    /\ SdIdle
    /\ PtIdle

\* handshake returned Ok: the same stream goes to connect_raw_socket.
HandOver ==
    /\ tnState = "ok"
    /\ tnState' = "handed over"
    /\ hoUnread' = Some(StreamRest(tnRes, tnPos))
    /\ UNCHANGED <<tnRes, tnPos, tnLf, hoHead>>
    /\ UNCHANGED <<sseVars, rtVars, pxVars, stVars, itVars, svVars, cnVars,
                   bdVars, roVars, sdVars, ptVars>>

NextHandOver == ReadByte \/ CheckStatus \/ HandOver

SpecHandOver == InitHandOver /\ [][NextHandOver]_vars

\* The position of the n-th LF of res (0 when there are fewer).
NthLf(res, n) ==
    IF \E i \in 1..Len(res) :
           res[i] = LF /\ Cardinality({ j \in 1..i : res[j] = LF }) = n
    THEN CHOOSE i \in 1..Len(res) :
           res[i] = LF /\ Cardinality({ j \in 1..i : res[j] = LF }) = n
    ELSE 0

\* The proxy's answer ends with its blank line.
HeadComplete == TwoTerminators(SubSeq(tnRes, 1, hoHead))

\* C32: no over-read.  Once the handshake has seen the second line feed it
\* has taken the stream's bytes up to and including that line feed and
\* takes no byte after it; and when the proxy's answer ends with its blank
\* line and the handshake succeeds, what connect_raw_socket finds in the
\* stream is everything that came through the tunnel, from its first byte.
C32_NoOverRead ==
    /\ [](tnLf = 2 => tnPos = NthLf(tnRes, 2))
    /\ []((hoUnread # None /\ HeadComplete)
            => /\ tnPos = hoHead
               /\ hoUnread[1] = SubSeq(tnRes, hoHead + 1, Len(tnRes)))
    /\ [][tnLf = 2 => tnPos' = tnPos]_vars

\* A stream whose tunnel bytes begin with a line feed has been handed over
\* with that line feed unread.
C32_Witness ==
    /\ tnState = "handed over"
    /\ tnPos = hoHead
    /\ hoUnread = Some(<<LF, 72>>)


-----------------------------------------------------------------------------
(* A caller that drops the iterator of next_events before its end, next to *)
(* one that runs every iterator to its end, both fed the same chunks.      *)

MaxPartialLines == 3
MaxTake == 2

\* The lines of the bodies fed here.
PartialLines == { <<>>, StrData, StrData \o <<COLON, 208, 144>> }

RECURSIVE PartialStreamsOf(_, _)
PartialStreamsOf(n, eol) ==
    IF n = 0 THEN { <<>> }
    ELSE { l \o eol \o rest : l \in PartialLines,
                              rest \in PartialStreamsOf(n - 1, eol) }

PartialStreams ==
    UNION { PartialStreamsOf(n, eol) : n \in 1..MaxPartialLines, eol \in Eols }

\* n calls of next() at most, stopping at the first None.
RECURSIVE TakeSome(_, _, _, _)
TakeSome(ev, data, n, out) ==
    IF n = 0 THEN [events |-> out, event |-> ev, data |-> data]
    ELSE CHOOSE t \in {IF r.item = None
                       THEN [events |-> out, event |-> r.event, data |-> r.data]
                       ELSE TakeSome(r.event, r.data, n - 1, out \o r.item) :
                       r \in {EventIteratorNext(ev, data)}} : TRUE

\* One next_events call whose iterator is asked n times at most and then
\* dropped: [reader, events, failed, short]; short says the iterator still
\* had an Event to give.
NextEventsSome(rd, bytes, n) ==
    LET input == NextEventsInput(rd, bytes)
        ch == Utf8FirstChunk(input)
    IN  IF DecodeFails(ch, input)
        THEN [reader |-> [rd EXCEPT !.suffix = <<>>],
              events |-> <<>>, failed |-> TRUE, short |-> FALSE]
        ELSE LET taken == [event |-> EventDefault, suffix |-> CarryOver(ch)]
                 d == TakeSome(rd.event, ch.valid, n, <<>>)
             IN  [reader |-> DropIterator(taken, d.event, d.data),
                  events |-> d.events, failed |-> FALSE,
                  short |-> EventIteratorNext(d.event, d.data).item # None]

InitPartial ==
    /\ stream \in PartialStreams
    /\ pos = 0
    /\ reader = EventReaderDefault
    /\ emitted = <<>>
    /\ failed = FALSE
    /\ splitChar = FALSE
    /\ ptReader = EventReaderDefault
    /\ ptEmitted = <<>>
    /\ ptShort = FALSE
    /\ RtIdle
    /\ PxIdle
    /\ StIdle
    /\ ItIdle
    /\ TnIdle
    /\ SvIdle
    /\ CnIdle
    /\ BdIdle
    /\ RoIdle
    /\ SdIdle
    /\ HoIdle

\* The next chunk, of k bytes, goes to both readers: the one caller runs
\* its iterator to the end, the other asks its iterator n times at most.
PartialNextEvents(k, n) ==
    /\ ~failed
    /\ pos + k <= Len(stream)
    /\ LET bytes == SubSeq(stream, pos + 1, pos + k)
           r == NextEventsAll(reader, bytes)
           p == NextEventsSome(ptReader, bytes, n)
       IN  /\ reader' = r.reader
           /\ emitted' = emitted \o r.events
           /\ failed' = (r.failed \/ p.failed)
           /\ ptReader' = p.reader
           /\ ptEmitted' = ptEmitted \o p.events
           /\ ptShort' = (ptShort \/ p.short)
    /\ pos' = pos + k
    /\ splitChar' = (splitChar \/ MidChar(stream, pos + k))
    /\ UNCHANGED stream
    /\ UNCHANGED <<rtVars, pxVars, stVars, itVars, tnVars, svVars, cnVars,
                   bdVars, roVars, sdVars, hoVars>>

NextPartial ==
    \E k \in 1..Len(stream), n \in 0..MaxTake : PartialNextEvents(k, n)

SpecPartial == InitPartial /\ [][NextPartial]_vars

\* C33: partial consumption loses nothing.  After every call, what the
\* caller that drops iterators early has been given is the beginning of
\* what the caller that runs them to the end has been given, and running
\* its reader on to the end gives the rest, in order, and leaves the reader
\* as the other caller's is.
C33_PartialConsumption ==
    ~failed =>
        LET rest == NextEventsAll(ptReader, <<>>)
        IN  /\ ~rest.failed
            /\ ptEmitted \o rest.events = emitted
            /\ rest.reader = reader

=============================================================================
